---- MODULE Spec2Model ----
(***************************************************************************)
(* emotional-decoration: the text-analysis and theme-recommendation        *)
(* pipeline (EmotionDetector, ContentClassifier, ContentAnalyzer,          *)
(* ThemeGenerator, ThemeLoader, DecorationEngine).                         *)
(*                                                                         *)
(* Texts are strings.  Floats are modelled as exact rationals <<n, d>>     *)
(* kept in lowest terms; wall-clock durations are small naturals.          *)
(***************************************************************************)
EXTENDS Integers, Sequences, FiniteSets, TLC

(***************************************************************************)
(* Bounds of the model.                                                    *)
(***************************************************************************)
\* longest text, in vocabulary tokens, the functions of the analysis are applied to
MaxTokens == 3
\* longest batch handed to analyze_batch
MaxBatch == 2
\* most requests the engine's statistics count
MaxRequests == 2

\* the sequences over S of length up to n
SeqsUpTo(S, n) == UNION { [1..k -> S] : k \in 0..n }

\* the texts the functions of the analysis are applied to: the
\* concatenations of up to MaxTokens tokens of the vocabulary
Vocabulary == {" ", "happy", "very ", "sad. learn ", "Code"}

RECURSIVE Concat(_)
Concat(tokens) == IF tokens = <<>> THEN "" ELSE Head(tokens) \o Concat(Tail(tokens))

PureTexts == { Concat(tokens) : tokens \in SeqsUpTo(Vocabulary, MaxTokens) }

(***************************************************************************)
(* Characters and the str methods the code uses.                           *)
(***************************************************************************)
LowerChars == "abcdefghijklmnopqrstuvwxyz"
UpperChars == "ABCDEFGHIJKLMNOPQRSTUVWXYZ"
DigitChars == "0123456789"

CharsOf(s) == { SubSeq(s, i, i) : i \in 1..Len(s) }

\* \w of the re module (ASCII part)
WordCharSet == CharsOf(LowerChars) \cup CharsOf(UpperChars) \cup CharsOf(DigitChars) \cup {"_"}
\* \s of the re module and the whitespace of str.split() / str.strip()
SpaceCharSet == {" ", "\t", "\n", "\r", "\f"}

ToLowerMap == [c \in CharsOf(UpperChars) |->
                 LET i == CHOOSE k \in 1..Len(UpperChars) : SubSeq(UpperChars, k, k) = c
                 IN  SubSeq(LowerChars, i, i)]

CharAt(s, i) == SubSeq(s, i, i)

\* a dict: the function f as a table, every value computed once when the
\* dict is built
Dict(f) == f @@ <<>>

\* Body applied to value, value computed once and then named in Body: a
\* local variable of the code
With(value, Body(_)) == CHOOSE result \in { Body(v) : v \in {value} } : TRUE

RECURSIVE lower(_)
\* str.lower()
lower(s) ==
    IF s = "" THEN ""
    ELSE IF Len(s) = 1 THEN (IF s \in DOMAIN ToLowerMap THEN ToLowerMap[s] ELSE s)
    ELSE lower(SubSeq(s, 1, Len(s) \div 2)) \o lower(SubSeq(s, Len(s) \div 2 + 1, Len(s)))

RECURSIVE lstrip(_)
lstrip(s) ==
    IF s # "" /\ CharAt(s, 1) \in SpaceCharSet THEN lstrip(SubSeq(s, 2, Len(s))) ELSE s

RECURSIVE rstrip(_)
rstrip(s) ==
    IF s # "" /\ CharAt(s, Len(s)) \in SpaceCharSet THEN rstrip(SubSeq(s, 1, Len(s) - 1)) ELSE s

\* str.strip()
strip(s) == rstrip(lstrip(s))

\* the runs of characters of s that satisfy / do not satisfy membership in
\* seps, as the sequence of maximal separator-free pieces (empty pieces kept)
SplitOn(s, seps) ==
    With({0, Len(s) + 1} \cup { i \in 1..Len(s) : CharAt(s, i) \in seps }, LAMBDA cuts :
        Dict([k \in 1..(Cardinality(cuts) - 1) |->
                 With(CHOOSE c \in cuts : Cardinality({ d \in cuts : d < c }) = k - 1,
                      LAMBDA c : SubSeq(s, c + 1, (CHOOSE d \in cuts : d > c /\ \A e \in cuts : e > c => d <= e) - 1))]))

NonEmpty(seq) == SelectSeq(seq, LAMBDA p : p # "")

\* str.split() with no argument: split on whitespace runs, no empty strings
split(s) == NonEmpty(SplitOn(s, SpaceCharSet))

\* s.split(sep) for a one-character separator: every separator splits
split_char(s, sep) == SplitOn(s, {sep})

\* Python's  a in b  for strings
IsSubstring(a, b) ==
    \E i \in 0..(Len(b) - Len(a)) : SubSeq(b, i + 1, i + Len(a)) = a

\* Python's  x in list
InList(x, list) == \E i \in 1..Len(list) : list[i] = x

(***************************************************************************)
(* Exact rationals standing for the floats of the code.                    *)
(***************************************************************************)
RECURSIVE GCD(_, _)
GCD(a, b) == IF b = 0 THEN a ELSE GCD(b, a % b)

Abs(n) == IF n < 0 THEN -n ELSE n

Norm(n, d) ==
    LET g == GCD(Abs(n), Abs(d))
        s == IF d < 0 THEN -1 ELSE 1
    IN  IF n = 0 THEN <<0, 1>> ELSE <<s * (n \div g), s * (d \div g)>>

R(n) == <<n, 1>>
Frac(n, d) == Norm(n, d)
RAdd(a, b) == Norm(a[1] * b[2] + b[1] * a[2], a[2] * b[2])
RSub(a, b) == Norm(a[1] * b[2] - b[1] * a[2], a[2] * b[2])
RMul(a, b) == Norm(a[1] * b[1], a[2] * b[2])
RDiv(a, b) == Norm(a[1] * b[2], a[2] * b[1])
RLt(a, b) == a[1] * b[2] < b[1] * a[2]
RLe(a, b) == a[1] * b[2] <= b[1] * a[2]
RGt(a, b) == RLt(b, a)
RMin(a, b) == IF RLt(b, a) THEN b ELSE a
RMax(a, b) == IF RGt(b, a) THEN b ELSE a
RAbs(a) == <<Abs(a[1]), a[2]>>
Zero == R(0)
One == R(1)

(***************************************************************************)
(* models.py: the closed enumerations, in declaration order.               *)
(***************************************************************************)
SeqToSet(seq) == { seq[i] : i \in 1..Len(seq) }

EmotionType == <<"happy", "sad", "excited", "calm", "angry", "fearful", "surprised", "neutral">>
ContentType == <<"learning", "entertainment", "narrative", "professional", "technical", "creative">>
DifficultyLevel == <<"easy", "medium", "hard", "expert">>

(***************************************************************************)
(* analyzers/emotion_detector.py                                           *)
(***************************************************************************)
emotion_keywords ==
    [happy |->
        <<"happy", "joy", "excited", "wonderful", "amazing", "great",
          "fantastic", "awesome", "brilliant", "excellent", "love",
          "celebrate", "success", "achievement", "victory", "smile", "laugh",
          "cheerful", "delighted">>,
     sad |->
        <<"sad", "sorrow", "grief", "depressed", "unhappy", "melancholy",
          "disappointed", "heartbroken", "tragedy", "loss", "cry", "tears",
          "pain", "hurt", "lonely", "empty", "despair", "misery">>,
     excited |->
        <<"excited", "thrilled", "energetic", "enthusiastic", "passionate",
          "eager", "pumped", "animated", "dynamic", "vibrant", "electric",
          "intense", "fired up", "exhilarated", "rush", "adrenaline">>,
     calm |->
        <<"calm", "peaceful", "serene", "tranquil", "relaxed", "gentle",
          "quiet", "still", "meditation", "zen", "balance", "harmony",
          "soothing", "comfortable", "stable", "centered", "mindful">>,
     angry |->
        <<"angry", "rage", "furious", "mad", "irritated", "frustrated",
          "annoyed", "outraged", "livid", "hate", "aggravated", "hostile",
          "resentful", "bitter", "explosive", "fierce", "aggressive">>,
     fearful |->
        <<"fear", "afraid", "scared", "terrified", "anxious", "worried",
          "nervous", "panic", "dread", "horror", "frightened", "alarmed",
          "concerned", "uneasy", "apprehensive", "timid", "insecure">>,
     surprised |->
        <<"surprised", "amazed", "astonished", "shocked", "stunned",
          "bewildered", "confused", "unexpected", "sudden", "wow",
          "incredible", "unbelievable", "extraordinary", "remarkable">>]

\* iteration order of the emotion_keywords dict (neutral has no keywords)
EmotionKeywordOrder == <<"happy", "sad", "excited", "calm", "angry", "fearful", "surprised">>

intensity_modifiers ==
    ("very" :> Frac(13, 10)) @@
    ("extremely" :> Frac(15, 10)) @@
    ("incredibly" :> Frac(14, 10)) @@
    ("absolutely" :> Frac(13, 10)) @@
    ("completely" :> Frac(12, 10)) @@
    ("totally" :> Frac(12, 10)) @@
    ("quite" :> Frac(11, 10)) @@
    ("really" :> Frac(12, 10)) @@
    ("so" :> Frac(11, 10)) @@
    ("rather" :> Frac(9, 10)) @@
    ("somewhat" :> Frac(8, 10)) @@
    ("slightly" :> Frac(7, 10)) @@
    ("a bit" :> Frac(6, 10)) @@
    ("a little" :> Frac(6, 10))

\* The sentiment environment of _get_sentiment_boost: TextBlob missing (the
\* keyword-ratio fallback runs), TextBlob present (it supplies a polarity in
\* [-1,1] and a subjectivity in [0,1]), or the sentiment step raising.
FallbackEnv == [mode |-> "fallback", polarity |-> Zero, subjectivity |-> Zero]
RaisingEnv == [mode |-> "raises", polarity |-> Zero, subjectivity |-> Zero]

RECURSIVE CollapseSpaces(_, _, _)
\* re.sub(r'\s+', ' ', s), for the characters lo..hi of s: a whitespace
\* character that follows another one adds nothing
CollapseSpaces(s, lo, hi) ==
    IF lo > hi THEN ""
    ELSE IF lo = hi
         THEN (IF CharAt(s, lo) \notin SpaceCharSet THEN CharAt(s, lo)
               ELSE IF lo > 1 /\ CharAt(s, lo - 1) \in SpaceCharSet THEN "" ELSE " ")
         ELSE CollapseSpaces(s, lo, (lo + hi) \div 2) \o CollapseSpaces(s, (lo + hi) \div 2 + 1, hi)

RECURSIVE BlankSpecials(_)
\* re.sub(r'[^\w\s\']', ' ', s)
BlankSpecials(s) ==
    IF s = "" THEN ""
    ELSE IF Len(s) = 1 THEN (IF s \in WordCharSet \cup SpaceCharSet \cup {"'"} THEN s ELSE " ")
    ELSE BlankSpecials(SubSeq(s, 1, Len(s) \div 2)) \o BlankSpecials(SubSeq(s, Len(s) \div 2 + 1, Len(s)))

_clean_text(text) ==
    With(strip(text), LAMBDA stripped :
        With(CollapseSpaces(stripped, 1, Len(stripped)), LAMBDA collapsed : BlankSpecials(collapsed)))

\* what one word adds to one emotion's score in _calculate_emotion_scores
KeywordCredit(word, keywords) ==
    IF InList(word, keywords) THEN One
    ELSE IF \E k \in 1..Len(keywords) :
                IsSubstring(keywords[k], word) \/ IsSubstring(word, keywords[k])
         THEN Frac(1, 2)
         ELSE Zero

RECURSIVE SumCredits(_, _, _, _)
\* the credits of the words lo..hi, added up
SumCredits(words, keywords, lo, hi) ==
    IF lo > hi THEN Zero
    ELSE IF lo = hi THEN KeywordCredit(words[lo], keywords)
    ELSE With(SumCredits(words, keywords, lo, (lo + hi) \div 2), LAMBDA left :
             With(SumCredits(words, keywords, (lo + hi) \div 2 + 1, hi), LAMBDA right : RAdd(left, right)))

_calculate_emotion_scores(words) ==
    Dict([e \in SeqToSet(EmotionKeywordOrder) |-> SumCredits(words, emotion_keywords[e], 1, Len(words))])

Min(a, b) == IF a < b THEN a ELSE b
Max(a, b) == IF a > b THEN a ELSE b

RECURSIVE ApplyModifiersAt(_, _, _, _)
\* the two nested loops of _apply_intensity_modifiers: i is the (1-based)
\* index of the word tested as a modifier, j the index inside its window
ApplyModifiersAt(scores, words, i, j) ==
    IF i > Len(words) THEN scores
    ELSE IF words[i] \notin DOMAIN intensity_modifiers \/ j > Min(i + 3, Len(words))
         THEN ApplyModifiersAt(scores, words, i + 1, i + 2)
         ELSE ApplyModifiersAt(
                Dict([e \in DOMAIN scores |->
                         IF InList(words[j], emotion_keywords[e])
                         THEN RMul(scores[e], intensity_modifiers[words[i]])
                         ELSE scores[e]]),
                words, i, j + 1)

_apply_intensity_modifiers(emotion_scores, words) ==
    ApplyModifiersAt(emotion_scores, words, 1, 2)

positive_words == <<"good", "great", "excellent", "amazing", "wonderful", "love", "happy", "joy">>
negative_words == <<"bad", "terrible", "awful", "hate", "sad", "angry", "fear", "worry">>

CountIn(words, list) == Cardinality({ i \in 1..Len(words) : InList(words[i], list) })

\* <<polarity, subjectivity>> of the keyword-ratio fallback
FallbackSentiment(text) ==
    With(split(lower(text)), LAMBDA words :
    With(CountIn(words, positive_words), LAMBDA positive_count :
    With(CountIn(words, negative_words), LAMBDA negative_count :
    With(positive_count + negative_count, LAMBDA total_sentiment_words :
        <<IF total_sentiment_words = 0 THEN Zero
          ELSE Frac(positive_count - negative_count, Len(words)),
          IF Len(words) > 0
          THEN RMin(Frac(total_sentiment_words, Len(words)), One)
          ELSE Zero>>))))

NeutralBoost == [e \in SeqToSet(EmotionType) |-> One]

PolarityBoost(polarity) ==
    LET a == RAbs(polarity)
        up(k) == RAdd(One, RMul(a, Frac(k, 10)))
        down(k) == RSub(One, RMul(a, Frac(k, 10)))
    IN  IF RGt(polarity, Frac(1, 10))
        THEN Dict([e \in SeqToSet(EmotionType) |->
                     CASE e = "happy" -> up(5)
                       [] e = "excited" -> up(3)
                       [] e = "sad" -> down(3)
                       [] e = "angry" -> down(3)
                       [] e = "fearful" -> down(2)
                       [] OTHER -> One])
        ELSE IF RLt(polarity, Frac(-1, 10))
        THEN Dict([e \in SeqToSet(EmotionType) |->
                     CASE e = "sad" -> up(5)
                       [] e = "angry" -> up(4)
                       [] e = "fearful" -> up(3)
                       [] e = "happy" -> down(4)
                       [] e = "excited" -> down(3)
                       [] OTHER -> One])
        ELSE NeutralBoost

SubjectivityBoost(boost, subjectivity) ==
    IF RGt(subjectivity, Frac(1, 2))
    THEN LET emotion_boost == RAdd(One, RMul(RSub(subjectivity, Frac(1, 2)), Frac(3, 10)))
         IN  Dict([e \in DOMAIN boost |->
                     IF e \in {"happy", "sad", "excited", "angry", "fearful"}
                     THEN RMul(boost[e], emotion_boost)
                     ELSE boost[e]])
    ELSE boost

\* _get_sentiment_boost taking a failed sentiment step for the most negative
\* and most subjective sentiment
_get_sentiment_boost_negative_on_failure(text, env) ==
    IF env.mode = "raises" THEN SubjectivityBoost(PolarityBoost(Frac(-1, 1)), One)
    ELSE With(IF env.mode = "textblob"
              THEN <<env.polarity, env.subjectivity>>
              ELSE FallbackSentiment(text),
              LAMBDA ps : SubjectivityBoost(PolarityBoost(ps[1]), ps[2]))

_get_sentiment_boost(text, env) ==
    IF env.mode = "raises" THEN NeutralBoost
    ELSE With(IF env.mode = "textblob"
              THEN <<env.polarity, env.subjectivity>>
              ELSE FallbackSentiment(text),
              LAMBDA ps : SubjectivityBoost(PolarityBoost(ps[1]), ps[2]))

RECURSIVE MaxOver(_, _, _)
\* max(scores.values()) over the keys listed in order
MaxOver(scores, order, i) ==
    IF i = Len(order) THEN scores[order[i]]
    ELSE RMax(scores[order[i]], MaxOver(scores, order, i + 1))

RECURSIVE SumOver(_, _, _)
\* sum(scores.values())
SumOver(scores, order, i) ==
    IF i > Len(order) THEN Zero
    ELSE RAdd(scores[order[i]], SumOver(scores, order, i + 1))

\* max(scores, key=scores.get): the first key, in dict order, with the maximum
ArgMax(scores, order) ==
    With(MaxOver(scores, order, 1), LAMBDA m :
        order[CHOOSE k \in 1..Len(order) :
                 /\ scores[order[k]] = m
                 /\ \A l \in 1..(k - 1) : scores[order[l]] # m])

\* the scores detect_emotion ranks: keywords, modifiers, sentiment boost
FinalEmotionScores(text, env) ==
    With(split(lower(_clean_text(text))), LAMBDA words :
    With(_apply_intensity_modifiers(_calculate_emotion_scores(words), words), LAMBDA modified :
    With(_get_sentiment_boost(text, env), LAMBDA sentiment_boost :
        Dict([e \in DOMAIN modified |-> RMul(modified[e], sentiment_boost[e])]))))

\* detect_emotion with the intensity left as max_score / len(words), not
\* capped at 1.0
detect_emotion_unclamped(text, env) ==
    IF text = "" \/ strip(text) = "" THEN <<"neutral", Zero>>
    ELSE With(split(lower(_clean_text(text))), LAMBDA words :
         With(FinalEmotionScores(text, env), LAMBDA emotion_scores :
             IF MaxOver(emotion_scores, EmotionKeywordOrder, 1) = Zero
             THEN <<"neutral", Zero>>
             ELSE With(ArgMax(emotion_scores, EmotionKeywordOrder), LAMBDA primary_emotion :
                      <<primary_emotion,
                        IF Len(words) > 0
                        THEN RDiv(emotion_scores[primary_emotion], R(Len(words)))
                        ELSE Zero>>)))

\* detect_emotion ranking the scores before the sentiment boost is applied
detect_emotion_without_sentiment(text, env) ==
    IF text = "" \/ strip(text) = "" THEN <<"neutral", Zero>>
    ELSE With(split(lower(_clean_text(text))), LAMBDA words :
         With(_apply_intensity_modifiers(_calculate_emotion_scores(words), words),
              LAMBDA emotion_scores :
             IF MaxOver(emotion_scores, EmotionKeywordOrder, 1) = Zero
             THEN <<"neutral", Zero>>
             ELSE With(ArgMax(emotion_scores, EmotionKeywordOrder), LAMBDA primary_emotion :
                      <<primary_emotion,
                        IF Len(words) > 0
                        THEN RMin(RDiv(emotion_scores[primary_emotion], R(Len(words))), One)
                        ELSE Zero>>)))

\* <<emotion, intensity>>
detect_emotion(text, env) ==
    IF text = "" \/ strip(text) = "" THEN <<"neutral", Zero>>
    ELSE With(split(lower(_clean_text(text))), LAMBDA words :
         With(FinalEmotionScores(text, env), LAMBDA emotion_scores :
             IF MaxOver(emotion_scores, EmotionKeywordOrder, 1) = Zero
             THEN <<"neutral", Zero>>
             ELSE With(ArgMax(emotion_scores, EmotionKeywordOrder), LAMBDA primary_emotion :
                      <<primary_emotion,
                        IF Len(words) > 0
                        THEN RMin(RDiv(emotion_scores[primary_emotion], R(Len(words))), One)
                        ELSE Zero>>)))

\* get_emotion_distribution returning the scores as they are, not divided
\* by their total
get_emotion_distribution_unnormalised(text) ==
    IF text = "" \/ strip(text) = "" THEN Dict([e \in SeqToSet(EmotionType) |-> Zero])
    ELSE With(split(lower(_clean_text(text))), LAMBDA words :
         With(_apply_intensity_modifiers(_calculate_emotion_scores(words), words), LAMBDA emotion_scores :
             Dict([e \in SeqToSet(EmotionType) |->
                     IF e \notin DOMAIN emotion_scores THEN Zero ELSE emotion_scores[e]])))

get_emotion_distribution(text) ==
    IF text = "" \/ strip(text) = "" THEN Dict([e \in SeqToSet(EmotionType) |-> Zero])
    ELSE With(split(lower(_clean_text(text))), LAMBDA words :
         With(_apply_intensity_modifiers(_calculate_emotion_scores(words), words), LAMBDA emotion_scores :
         With(SumOver(emotion_scores, EmotionKeywordOrder, 1), LAMBDA total_score :
             Dict([e \in SeqToSet(EmotionType) |->
                     IF e \notin DOMAIN emotion_scores THEN Zero
                     ELSE IF RGt(total_score, Zero) THEN RDiv(emotion_scores[e], total_score)
                     ELSE emotion_scores[e]]))))

(***************************************************************************)
(* The part of the re module the code uses.  A pattern is a tree; Ends     *)
(* lists, in the backtracking order of re, the positions at which a match  *)
(* starting after the first i characters of s can end.  ic is              *)
(* re.IGNORECASE.                                                          *)
(***************************************************************************)
Lit(str) == [op |-> "lit", s |-> str]
Cls(chars) == [op |-> "cls", chars |-> chars, neg |-> FALSE]
NotCls(chars) == [op |-> "cls", chars |-> chars, neg |-> TRUE]
Cat(nodes) == [op |-> "cat", args |-> nodes]
Alt(nodes) == [op |-> "alt", args |-> nodes]
\* greedy repetition, hi = -1 for no upper limit
Rep(node, lo, hi) == [op |-> "rep", arg |-> node, lo |-> lo, hi |-> hi]
Star(node) == Rep(node, 0, -1)
Plus(node) == Rep(node, 1, -1)
Opt(node) == Rep(node, 0, 1)
WordBoundary == [op |-> "wb"]
LineStart == [op |-> "bol"]
\* . without re.DOTALL
AnyChar == NotCls({"\n"})
Digit == Cls(CharsOf(DigitChars))
WordChar == Cls(WordCharSet)
Space == Cls(SpaceCharSet)

RECURSIVE LitSeq(_, _)
LitSeq(strs, i) == IF i > Len(strs) THEN <<>> ELSE <<Lit(strs[i])>> \o LitSeq(strs, i + 1)

IsWordAt(s, i) == i >= 1 /\ i <= Len(s) /\ CharAt(s, i) \in WordCharSet

RECURSIVE Ends(_, _, _, _)
RECURSIVE CatEnds(_, _, _, _, _)
RECURSIVE CatFrom(_, _, _, _, _, _, _)
RECURSIVE AltEnds(_, _, _, _, _)
RECURSIVE RepEnds(_, _, _, _, _)
RECURSIVE RepFrom(_, _, _, _, _, _, _)

Ends(node, s, i, ic) ==
    CASE node.op = "lit" ->
            LET n == Len(node.s)
                piece == SubSeq(s, i + 1, i + n)
            IN  IF i + n <= Len(s)
                   /\ (IF ic
                       THEN /\ n = 0 \/ lower(CharAt(piece, 1)) = lower(CharAt(node.s, 1))
                            /\ lower(piece) = lower(node.s)
                       ELSE piece = node.s)
                THEN <<i + n>> ELSE <<>>
      [] node.op = "cls" ->
            IF i < Len(s) /\ ((CharAt(s, i + 1) \in node.chars) # node.neg)
            THEN <<i + 1>> ELSE <<>>
      [] node.op = "wb" ->
            IF IsWordAt(s, i) # IsWordAt(s, i + 1) THEN <<i>> ELSE <<>>
      [] node.op = "bol" ->
            IF i = 0 \/ CharAt(s, i) = "\n" THEN <<i>> ELSE <<>>
      [] node.op = "cat" -> CatEnds(node.args, 1, s, i, ic)
      [] node.op = "alt" -> AltEnds(node.args, 1, s, i, ic)
      [] node.op = "rep" -> RepEnds(node, 0, s, i, ic)

CatEnds(nodes, k, s, i, ic) ==
    IF k > Len(nodes) THEN <<i>>
    ELSE With(Ends(nodes[k], s, i, ic), LAMBDA ends :
             CatFrom(ends, 1, Len(ends), nodes, k + 1, s, ic))

\* the rest of the concatenation tried from ends[lo], ..., ends[hi] in turn
CatFrom(ends, lo, hi, nodes, k, s, ic) ==
    IF lo > hi THEN <<>>
    ELSE IF lo = hi THEN CatEnds(nodes, k, s, ends[lo], ic)
    ELSE CatFrom(ends, lo, (lo + hi) \div 2, nodes, k, s, ic)
         \o CatFrom(ends, (lo + hi) \div 2 + 1, hi, nodes, k, s, ic)

AltEnds(nodes, k, s, i, ic) ==
    IF k > Len(nodes) THEN <<>>
    ELSE Ends(nodes[k], s, i, ic) \o AltEnds(nodes, k + 1, s, i, ic)

\* how many characters after position i belong to the class
ClassRun(cls, s, i) ==
    CHOOSE m \in 0..(Len(s) - i) :
        /\ \A j \in 1..m : (CharAt(s, i + j) \in cls.chars) # cls.neg
        /\ (i + m = Len(s) \/ ((CharAt(s, i + m + 1) \in cls.chars) = cls.neg))

\* a repeated class: the longest run first, then one character fewer each time
RepClassEnds(node, cnt, s, i) ==
    With(ClassRun(node.arg, s, i), LAMBDA run :
    With(IF node.hi = -1 THEN run ELSE Min(run, node.hi - cnt), LAMBDA most :
    With(Max(0, node.lo - cnt), LAMBDA least :
        IF most < least THEN <<>>
        ELSE Dict([k \in 1..(most - least + 1) |-> i + most - k + 1]))))

RepEnds(node, cnt, s, i, ic) ==
    IF node.arg.op = "cls" THEN RepClassEnds(node, cnt, s, i) ELSE
    (IF node.hi = -1 \/ cnt < node.hi
     THEN RepFrom(Ends(node.arg, s, i, ic), 1, node, cnt + 1, s, i, ic)
     ELSE <<>>)
    \o (IF cnt >= node.lo THEN <<i>> ELSE <<>>)

RepFrom(ends, n, node, cnt, s, start, ic) ==
    IF n > Len(ends) THEN <<>>
    ELSE (IF ends[n] > start THEN RepEnds(node, cnt, s, ends[n], ic) ELSE <<>>)
         \o RepFrom(ends, n + 1, node, cnt, s, start, ic)

\* the leftmost match at or after position p, as <<start, end>>, or <<>>
SearchFrom(node, s, p, ic) ==
    With({ q \in p..Len(s) : Ends(node, s, q, ic) # <<>> }, LAMBDA starts :
        IF starts = {} THEN <<>>
        ELSE With(CHOOSE q \in starts : \A r \in starts : q <= r, LAMBDA q :
                 <<q, Ends(node, s, q, ic)[1]>>))

\* re.search(pattern, s) is not None
re_search(node, s, ic) == SearchFrom(node, s, 0, ic) # <<>>

RECURSIVE CountFrom(_, _, _, _)
CountFrom(node, s, p, ic) ==
    With(SearchFrom(node, s, p, ic), LAMBDA m :
        IF m = <<>> THEN 0
        ELSE 1 + CountFrom(node, s, IF m[2] = m[1] THEN m[2] + 1 ELSE m[2], ic))

\* len(re.findall(pattern, s)) for a pattern without capturing groups
re_findall_count(node, s, ic) == CountFrom(node, s, 0, ic)

\* where a maximal run of word characters of s begins
WordStarts(s) ==
    { i \in 1..Len(s) : /\ CharAt(s, i) \in WordCharSet
                        /\ (i = 1 \/ CharAt(s, i - 1) \notin WordCharSet) }

\* where the run that begins at i ends
WordEnd(s, i) ==
    CHOOSE e \in i..Len(s) : /\ \A j \in i..e : CharAt(s, j) \in WordCharSet
                             /\ (e = Len(s) \/ CharAt(s, e + 1) \notin WordCharSet)

\* re.findall(r'\b\w+\b', s): the maximal runs of word characters, in order
WordRuns(s) ==
    With(WordStarts(s), LAMBDA starts :
        Dict([k \in 1..Cardinality(starts) |->
                 With(CHOOSE i \in starts : Cardinality({ j \in starts : j < i }) = k - 1,
                      LAMBDA i : SubSeq(s, i, WordEnd(s, i)))]))

re_findall_words(s) == WordRuns(s)

RECURSIVE MapStrip(_, _)
MapStrip(parts, i) ==
    IF i > Len(parts) THEN <<>> ELSE <<strip(parts[i])>> \o MapStrip(parts, i + 1)

\* re.split(r'[seps]+', s): a run of separators splits once; a piece starts
\* after the last character of a run (or at the start of s) and stops before
\* the next separator (or at the end of s)
SplitRuns(s, seps) ==
    With({ i \in 1..Len(s) : CharAt(s, i) \in seps }, LAMBDA at :
    With({0} \cup { i \in at : i + 1 \notin at }, LAMBDA run_ends :
        Dict([k \in 1..Cardinality(run_ends) |->
                 With(CHOOSE c \in run_ends : Cardinality({ d \in run_ends : d < c }) = k - 1,
                      LAMBDA c : SubSeq(s, c + 1, (CHOOSE d \in at \cup {Len(s) + 1} : d > c /\ \A e \in at \cup {Len(s) + 1} : e > c => d <= e) - 1))])))

\* [s.strip() for s in re.split(r'[.!?]+', text) if s.strip()]
_split_sentences(text) == NonEmpty(MapStrip(SplitRuns(text, {".", "!", "?"}), 1))

(***************************************************************************)
(* analyzers/content_classifier.py                                         *)
(***************************************************************************)
content_keywords ==
    [learning |->
        <<"learn", "study", "understand", "explain", "tutorial", "lesson",
          "chapter", "concept", "definition", "example", "exercise",
          "practice", "knowledge", "education", "research", "analysis",
          "theory", "principle", "method", "technique", "skill",
          "development", "improvement", "mastery", "fundamentals">>,
     entertainment |->
        <<"fun", "exciting", "adventure", "story", "movie", "game", "music",
          "dance", "party", "celebration", "humor", "comedy", "laugh",
          "entertainment", "show", "performance", "video", "social",
          "friends", "enjoy", "amazing", "awesome", "cool">>,
     narrative |->
        <<"story", "tale", "character", "plot", "journey", "adventure",
          "once", "began", "happened", "told", "narrative", "chapter",
          "episode", "scene", "dialogue", "description", "setting",
          "conflict", "resolution", "climax", "protagonist", "antagonist">>,
     professional |->
        <<"business", "company", "strategy", "management", "team", "project",
          "meeting", "client", "customer", "service", "solution", "analysis",
          "report", "proposal", "budget", "revenue", "profit", "growth",
          "market", "industry", "professional", "corporate", "organization",
          "department">>,
     technical |->
        <<"system", "software", "hardware", "code", "programming",
          "development", "algorithm", "database", "server", "network",
          "security", "protocol", "framework", "library", "api", "function",
          "variable", "parameter", "configuration", "debug", "implementation",
          "deployment", "architecture", "engineering">>,
     creative |->
        <<"art", "creative", "design", "beautiful", "inspiration",
          "imagination", "expression", "artistic", "aesthetic", "style",
          "color", "form", "composition", "texture", "visual", "audio",
          "poetry", "music", "painting", "sculpture", "photography",
          "writing", "creation", "innovation", "unique", "original">>]

\* \b(?:a|b|...)\b
Phrases(strs) == Cat(<<WordBoundary, Alt(LitSeq(strs, 1)), WordBoundary>>)

content_patterns ==
    [learning |-> <<
        Phrases(<<"how to", "learn", "understand", "explain">>),
        Cat(<<WordBoundary,
              Alt(<<Cat(<<Lit("step "), Plus(Digit)>>), Lit("first"), Lit("second"),
                    Lit("third"), Lit("finally")>>),
              WordBoundary>>),
        Phrases(<<"in conclusion", "to summarize", "key points">>),
        Phrases(<<"for example", "such as", "including">>) >>,
     entertainment |-> <<
        Phrases(<<"haha", "lol", "omg", "wow">>),
        Phrases(<<"check this out", "look at this", "amazing">>),
        Phrases(<<"so funny", "hilarious", "incredible">>),
        Alt(<<Rep(Cls({"!"}), 2, -1), Rep(Cls({"?"}), 2, -1)>>) >>,
     narrative |-> <<
        Phrases(<<"once upon a time", "in the beginning", "long ago">>),
        Phrases(<<"he said", "she said", "they said">>),
        Phrases(<<"suddenly", "meanwhile", "later", "finally">>),
        Phrases(<<"the end", "to be continued">>) >>,
     professional |-> <<
        Cat(<<WordBoundary,
              Alt(<<Cat(<<Lit("Q"), Plus(Digit)>>), Cat(<<Lit("FY"), Plus(Digit)>>),
                    Lit("KPI"), Lit("ROI"), Lit("CEO"), Lit("CFO"), Lit("CTO")>>),
              WordBoundary>>),
        Phrases(<<"please find", "attached", "regarding", "pursuant to">>),
        Phrases(<<"best regards", "sincerely", "respectfully">>),
        Cat(<<Lit("$"), Plus(Cls(CharsOf(DigitChars) \cup {","})), Opt(Lit(".")),
              Star(Digit)>>) >>,
     technical |-> <<
        Phrases(<<"var", "const", "function", "class", "import", "export">>),
        Phrases(<<"HTTP", "API", "SQL", "JSON", "XML", "CSS", "HTML">>),
        Cat(<<WordBoundary,
              Alt(<<Cat(<<Lit("version "), Plus(Digit)>>),
                    Cat(<<Lit("v"), Plus(Digit), Lit("."), Plus(Digit)>>)>>),
              WordBoundary>>),
        Cat(<<Cls(CharsOf(LowerChars) \cup CharsOf(UpperChars) \cup {"_"}),
              Star(WordChar), Lit("("), Lit(")")>>) >>,
     creative |-> <<
        Phrases(<<"imagine", "visualize", "picture this", "envision">>),
        Phrases(<<"artistic", "creative", "innovative", "unique">>),
        Phrases(<<"colors", "shapes", "forms", "textures">>),
        Alt(<<Plus(Cls({"~"})),
              Cat(<<Plus(Cls({"*"})), Star(AnyChar), Plus(Cls({"*"}))>>)>>) >>]

\* A TLA+ string holds neither U+2022 (the bullet of bullet_points) nor U+0060
\* (the backtick of code_blocks); in the texts of the model "|" and "^",
\* which no pattern of the code mentions, stand for them.
Bullet == "|"
Backtick == "^"

structural_patterns ==
    [numbered_lists |-> Cat(<<LineStart, Star(Space), Plus(Digit), Cls({".", ")"}), Plus(Space)>>),
     bullet_points |-> Cat(<<LineStart, Star(Space), Cls({Bullet, "-", "*"}), Plus(Space)>>),
     questions |-> Lit("?"),
     exclamations |-> Lit("!"),
     quotes |-> Cat(<<Cls({"\"", "'"}), Star(AnyChar), Cls({"\"", "'"})>>),
     code_blocks |-> Alt(<<Lit(Backtick \o Backtick \o Backtick),
                           Cat(<<Lit(Backtick), Star(AnyChar), Lit(Backtick)>>)>>),
     urls |-> Cat(<<Lit("http"), Opt(Lit("s")), Lit("://"), Plus(NotCls(SpaceCharSet))>>),
     hashtags |-> Cat(<<Lit("#"), Plus(WordChar)>>),
     mentions |-> Cat(<<Lit("@"), Plus(WordChar)>>)]

RECURSIVE KeywordScore(_, _, _, _)
\* sum over the keywords of len(re.findall(r'\b' + re.escape(keyword) + r'\b', text_lower))
KeywordScore(keywords, text_lower, lo, hi) ==
    IF lo > hi THEN 0
    ELSE IF lo = hi
         THEN (IF IsSubstring(keywords[lo], text_lower)
               THEN re_findall_count(Cat(<<WordBoundary, Lit(keywords[lo]), WordBoundary>>),
                                     text_lower, FALSE)
               ELSE 0)
         ELSE KeywordScore(keywords, text_lower, lo, (lo + hi) \div 2)
              + KeywordScore(keywords, text_lower, (lo + hi) \div 2 + 1, hi)

RECURSIVE PatternScore(_, _, _)
\* sum over the patterns of len(re.findall(pattern, text_lower, re.IGNORECASE)) * 2
PatternScore(patterns, text_lower, k) ==
    IF k > Len(patterns) THEN 0
    ELSE re_findall_count(patterns[k], text_lower, TRUE) * 2
         + PatternScore(patterns, text_lower, k + 1)

_calculate_content_scores(text) ==
    With(lower(text), LAMBDA text_lower :
    With(Len(re_findall_words(text_lower)), LAMBDA word_count :
        Dict([ct \in SeqToSet(ContentType) |->
                 Frac(KeywordScore(content_keywords[ct], text_lower, 1, Len(content_keywords[ct]))
                        + PatternScore(content_patterns[ct], text_lower, 1),
                      Max(word_count, 1))])))

\* multiply the boosts of the listed content types by the listed factors
Boosted(boost, factors) ==
    Dict([ct \in DOMAIN boost |->
             IF ct \in DOMAIN factors THEN RMul(boost[ct], factors[ct]) ELSE boost[ct]])

_analyze_structure(text) ==
    With(Dict([ct \in SeqToSet(ContentType) |-> One]), LAMBDA b0 :
    With(IF re_search(structural_patterns.numbered_lists, text, FALSE)
         THEN Boosted(b0, [learning |-> Frac(13, 10), professional |-> Frac(11, 10)])
         ELSE b0, LAMBDA b1 :
    With(IF re_search(structural_patterns.bullet_points, text, FALSE)
         THEN Boosted(b1, [professional |-> Frac(12, 10), learning |-> Frac(11, 10)])
         ELSE b1, LAMBDA b2 :
    With(re_findall_count(structural_patterns.questions, text, FALSE), LAMBDA question_count :
    With(IF question_count > 0
            /\ RGt(Frac(question_count, Len(split_char(text, "."))), Frac(2, 10))
         THEN Boosted(b2, [learning |-> Frac(12, 10), entertainment |-> Frac(11, 10)])
         ELSE b2, LAMBDA b3 :
    With(re_findall_count(structural_patterns.exclamations, text, FALSE), LAMBDA exclamation_count :
    With(IF exclamation_count > 0
            /\ RGt(Frac(exclamation_count, Len(split(text))), Frac(5, 100))
         THEN Boosted(b3, [entertainment |-> Frac(13, 10), creative |-> Frac(12, 10)])
         ELSE b3, LAMBDA b4 :
    With(IF re_search(structural_patterns.quotes, text, FALSE)
         THEN Boosted(b4, [narrative |-> Frac(12, 10), creative |-> Frac(11, 10)])
         ELSE b4, LAMBDA b5 :
    With(IF re_search(structural_patterns.code_blocks, text, FALSE)
         THEN Boosted(b5, [technical |-> Frac(15, 10)])
         ELSE b5, LAMBDA b6 :
    With(IF re_search(structural_patterns.hashtags, text, FALSE)
            \/ re_search(structural_patterns.mentions, text, FALSE)
         THEN Boosted(b6, [entertainment |-> Frac(12, 10), creative |-> Frac(11, 10)])
         ELSE b6, LAMBDA b7 :
        IF re_search(structural_patterns.urls, text, FALSE)
        THEN Boosted(b7, [technical |-> Frac(11, 10), professional |-> Frac(11, 10)])
        ELSE b7))))))))))

\* memo of _calculate_content_scores on the texts of the vocabulary
ContentScoreTable == Dict([t \in PureTexts |-> _calculate_content_scores(t)])

\* self._calculate_content_scores(text), read from the memo where it has the text
ContentScores(text) ==
    IF text \in PureTexts THEN ContentScoreTable[text] ELSE _calculate_content_scores(text)

\* the scores classify_content ranks and get_content_distribution normalises
BoostedContentScores(text) ==
    With(ContentScores(text), LAMBDA scores :
    With(_analyze_structure(text), LAMBDA structural_boost :
        Dict([ct \in DOMAIN scores |-> RMul(scores[ct], structural_boost[ct])])))

\* classify_content without its defaults for blank and for unscored text
classify_content_without_defaults(text) ==
    With(BoostedContentScores(text), LAMBDA scores :
    With(ArgMax(scores, ContentType), LAMBDA primary_type :
    With(SumOver(scores, ContentType, 1), LAMBDA total_score :
        <<primary_type,
          IF RGt(total_score, Zero) THEN RDiv(scores[primary_type], total_score) ELSE Zero>>)))

\* classify_content ranking the scores without the structural boost
classify_content_unboosted(text) ==
    IF text = "" \/ strip(text) = "" THEN <<"professional", Zero>>
    ELSE With(ContentScores(text), LAMBDA scores :
             IF MaxOver(scores, ContentType, 1) = Zero THEN <<"professional", Zero>>
             ELSE With(ArgMax(scores, ContentType), LAMBDA primary_type :
                  With(SumOver(scores, ContentType, 1), LAMBDA total_score :
                      <<primary_type,
                        IF RGt(total_score, Zero)
                        THEN RDiv(scores[primary_type], total_score)
                        ELSE Zero>>)))

\* <<content_type, confidence>>
classify_content(text) ==
    IF text = "" \/ strip(text) = "" THEN <<"professional", Zero>>
    ELSE With(BoostedContentScores(text), LAMBDA scores :
             IF MaxOver(scores, ContentType, 1) = Zero THEN <<"professional", Zero>>
             ELSE With(ArgMax(scores, ContentType), LAMBDA primary_type :
                  With(SumOver(scores, ContentType, 1), LAMBDA total_score :
                      <<primary_type,
                        IF RGt(total_score, Zero)
                        THEN RDiv(scores[primary_type], total_score)
                        ELSE Zero>>)))

get_content_distribution(text) ==
    IF text = "" \/ strip(text) = "" THEN Dict([ct \in SeqToSet(ContentType) |-> Zero])
    ELSE With(BoostedContentScores(text), LAMBDA scores :
         With(SumOver(scores, ContentType, 1), LAMBDA total_score :
             IF RGt(total_score, Zero)
             THEN Dict([ct \in DOMAIN scores |-> RDiv(scores[ct], total_score)])
             ELSE scores))

RECURSIVE SumLen(_, _)
SumLen(words, i) == IF i > Len(words) THEN 0 ELSE Len(words[i]) + SumLen(words, i + 1)

analyze_complexity(text) ==
    With(re_findall_words(lower(text)), LAMBDA words :
    With(_split_sentences(text), LAMBDA sentences :
        IF words = <<>> \/ sentences = <<>>
        THEN [avg_word_length |-> Zero, avg_sentence_length |-> Zero,
              vocabulary_richness |-> Zero, readability_score |-> Zero]
        ELSE With(Frac(SumLen(words, 1), Len(words)), LAMBDA avg_word_length :
             With(Frac(Len(words), Len(sentences)), LAMBDA avg_sentence_length :
                 [avg_word_length |-> avg_word_length,
                  avg_sentence_length |-> avg_sentence_length,
                  vocabulary_richness |-> Frac(Cardinality(SeqToSet(words)), Len(words)),
                  readability_score |->
                     RMax(Zero, RMin(One,
                        RSub(One, RSub(RAdd(RMul(avg_sentence_length, Frac(2, 100)),
                                            RMul(avg_word_length, Frac(1, 10))),
                                       Frac(1, 2)))))]))))

(***************************************************************************)
(* src/emotional_decoration/models.py: field validation                    *)
(***************************************************************************)
\* ContentProfile: emotion_intensity ge 0 le 1, reading_speed gt 0,
\* confidence ge 0 le 1, and the three enumeration fields
ContentProfileValid(p) ==
    /\ p.emotion \in SeqToSet(EmotionType)
    /\ p.content_type \in SeqToSet(ContentType)
    /\ p.difficulty \in SeqToSet(DifficultyLevel)
    /\ RLe(Zero, p.emotion_intensity) /\ RLe(p.emotion_intensity, One)
    /\ RGt(p.reading_speed, Zero)
    /\ RLe(Zero, p.confidence) /\ RLe(p.confidence, One)

(***************************************************************************)
(* src/emotional_decoration/boxing/content_analyzer.py: the pure steps     *)
(***************************************************************************)
\* lines 157-161: the composite score of the complexity metrics
difficulty_score(complexity_metrics) ==
    RAdd(RAdd(RMul(RSub(complexity_metrics.avg_word_length, R(4)), Frac(3, 10)),
              RMul(RSub(complexity_metrics.avg_sentence_length, R(15)), Frac(2, 100))),
         RMul(RSub(complexity_metrics.vocabulary_richness, Frac(1, 2)), Frac(1, 2)))

\* the thresholds of the difficulty taken as upper bounds that belong to
\* the lower level
difficulty_level_inclusive(score) ==
    IF RLe(score, Frac(-3, 10)) THEN "easy"
    ELSE IF RLe(score, Frac(1, 10)) THEN "medium"
    ELSE IF RLe(score, Frac(4, 10)) THEN "hard"
    ELSE "expert"

\* lines 163-170: the level of a composite score
difficulty_level(score) ==
    IF RLt(score, Frac(-3, 10)) THEN "easy"
    ELSE IF RLt(score, Frac(1, 10)) THEN "medium"
    ELSE IF RLt(score, Frac(4, 10)) THEN "hard"
    ELSE "expert"

_assess_difficulty(text) ==
    difficulty_level(difficulty_score(analyze_complexity(text)))

base_speed == 250

speed_modifiers ==
    [learning |-> Frac(8, 10), entertainment |-> Frac(12, 10), narrative |-> One,
     professional |-> Frac(9, 10), technical |-> Frac(7, 10), creative |-> Frac(11, 10)]

_estimate_reading_speed(text, content_type) ==
    RMul(R(base_speed),
         IF content_type \in DOMAIN speed_modifiers THEN speed_modifiers[content_type] ELSE One)

RECURSIVE ThemesOver(_, _, _, _, _)
\* the entries of order whose share exceeds the threshold, suffix appended
ThemesOver(dist, order, suffix, threshold, i) ==
    IF i > Len(order) THEN <<>>
    ELSE (IF RGt(dist[order[i]], threshold) THEN <<order[i] \o suffix>> ELSE <<>>)
         \o ThemesOver(dist, order, suffix, threshold, i + 1)

\* _extract_key_themes listing the emotion themes before the content themes
_extract_key_themes_emotions_first(text) ==
    With(get_content_distribution(text), LAMBDA content_dist :
    With(get_emotion_distribution(text), LAMBDA emotion_dist :
    With(ThemesOver(emotion_dist, EmotionType, "_emotion", Frac(2, 10), 1)
         \o ThemesOver(content_dist, ContentType, "", Frac(2, 10), 1), LAMBDA themes :
        SubSeq(themes, 1, Min(5, Len(themes))))))

_extract_key_themes(text) ==
    With(get_content_distribution(text), LAMBDA content_dist :
    With(get_emotion_distribution(text), LAMBDA emotion_dist :
    With(ThemesOver(content_dist, ContentType, "", Frac(2, 10), 1)
         \o ThemesOver(emotion_dist, EmotionType, "_emotion", Frac(2, 10), 1), LAMBDA themes :
        SubSeq(themes, 1, Min(5, Len(themes))))))

\* _determine_recommended_theme with the difficulty adjustment applied last,
\* over whatever the emotion chose
_determine_recommended_theme_difficulty_last(emotion, content_type, difficulty) ==
    LET base_theme ==
            IF content_type = "learning" THEN "learning"
            ELSE IF content_type = "professional" THEN "professional"
            ELSE IF content_type \in {"narrative", "creative"} THEN "emotional"
            ELSE "professional"
    IN  IF difficulty = "expert" THEN base_theme \o "_sophisticated"
        ELSE IF difficulty = "easy" THEN base_theme \o "_accessible"
        ELSE IF emotion \in {"excited", "happy"}
        THEN (IF base_theme = "learning" THEN "learning_energetic"
              ELSE IF base_theme = "professional" THEN "professional_positive"
              ELSE "emotional_vibrant")
        ELSE IF emotion \in {"calm", "neutral"}
        THEN (IF base_theme = "learning" THEN "learning_focused"
              ELSE IF base_theme = "professional" THEN "professional_minimal"
              ELSE "emotional_serene")
        ELSE IF emotion \in {"sad", "fearful"}
        THEN (IF base_theme = "learning" THEN "learning_supportive"
              ELSE IF base_theme = "professional" THEN "professional_subtle"
              ELSE "emotional_contemplative")
        ELSE base_theme

\* _determine_recommended_theme with entertainment content on the emotional base
_determine_recommended_theme_entertainment_emotional(emotion, content_type, difficulty) ==
    LET base_theme ==
            IF content_type = "learning" THEN "learning"
            ELSE IF content_type = "professional" THEN "professional"
            ELSE IF content_type \in {"narrative", "creative", "entertainment"}
            THEN "emotional"
            ELSE "professional"
    IN  IF emotion \in {"excited", "happy"}
        THEN (IF base_theme = "learning" THEN "learning_energetic"
              ELSE IF base_theme = "professional" THEN "professional_positive"
              ELSE "emotional_vibrant")
        ELSE IF emotion \in {"calm", "neutral"}
        THEN (IF base_theme = "learning" THEN "learning_focused"
              ELSE IF base_theme = "professional" THEN "professional_minimal"
              ELSE "emotional_serene")
        ELSE IF emotion \in {"sad", "fearful"}
        THEN (IF base_theme = "learning" THEN "learning_supportive"
              ELSE IF base_theme = "professional" THEN "professional_subtle"
              ELSE "emotional_contemplative")
        ELSE IF difficulty = "expert" THEN base_theme \o "_sophisticated"
        ELSE IF difficulty = "easy" THEN base_theme \o "_accessible"
        ELSE base_theme

_determine_recommended_theme(emotion, content_type, difficulty) ==
    LET base_theme ==
            IF content_type = "learning" THEN "learning"
            ELSE IF content_type = "professional" THEN "professional"
            ELSE IF content_type \in {"narrative", "creative"} THEN "emotional"
            ELSE "professional"
    IN  IF emotion \in {"excited", "happy"}
        THEN (IF base_theme = "learning" THEN "learning_energetic"
              ELSE IF base_theme = "professional" THEN "professional_positive"
              ELSE "emotional_vibrant")
        ELSE IF emotion \in {"calm", "neutral"}
        THEN (IF base_theme = "learning" THEN "learning_focused"
              ELSE IF base_theme = "professional" THEN "professional_minimal"
              ELSE "emotional_serene")
        ELSE IF emotion \in {"sad", "fearful"}
        THEN (IF base_theme = "learning" THEN "learning_supportive"
              ELSE IF base_theme = "professional" THEN "professional_subtle"
              ELSE "emotional_contemplative")
        ELSE IF difficulty = "expert" THEN base_theme \o "_sophisticated"
        ELSE IF difficulty = "easy" THEN base_theme \o "_accessible"
        ELSE base_theme

stop_words ==
    {"the", "a", "an", "and", "or", "but", "in", "on", "at", "to", "for",
     "of", "with", "by", "is", "are", "was", "were", "be", "been", "have",
     "has", "had", "do", "does", "did", "will", "would", "could", "should",
     "may", "might", "must", "can", "this", "that", "these", "those", "i",
     "you", "he", "she", "it", "we", "they", "me", "him", "her", "us", "them"}

Occurrences(words, w) == Cardinality({ i \in 1..Len(words) : words[i] = w })

RECURSIVE FirstOccurrences(_, _)
\* the distinct words in order of first occurrence (the key order of a Counter)
FirstOccurrences(words, i) ==
    IF i > Len(words) THEN <<>>
    ELSE (IF \E j \in 1..(i - 1) : words[j] = words[i] THEN <<>> ELSE <<words[i]>>)
         \o FirstOccurrences(words, i + 1)

Reverse(seq) == [i \in 1..Len(seq) |-> seq[Len(seq) + 1 - i]]

RECURSIVE MostCommon(_, _)
\* Counter.most_common(): descending count, ties in first-occurrence order
MostCommon(keys, words) ==
    IF keys = <<>> THEN <<>>
    ELSE LET best == CHOOSE k \in 1..Len(keys) :
                        /\ \A l \in 1..Len(keys) :
                              Occurrences(words, keys[l]) <= Occurrences(words, keys[k])
                        /\ \A l \in 1..(k - 1) :
                              Occurrences(words, keys[l]) < Occurrences(words, keys[k])
         IN  <<keys[best]>>
             \o MostCommon(SubSeq(keys, 1, best - 1) \o SubSeq(keys, best + 1, Len(keys)), words)

\* _extract_keywords breaking ties by the last word first
_extract_keywords_ties_reversed(text) ==
    With(re_findall_words(lower(text)), LAMBDA words :
    With(SelectSeq(words, LAMBDA w : w \notin stop_words /\ Len(w) > 2), LAMBDA filtered_words :
    With(MostCommon(Reverse(FirstOccurrences(filtered_words, 1)), filtered_words),
         LAMBDA ranked :
        SubSeq(ranked, 1, Min(20, Len(ranked))))))

_extract_keywords(text) ==
    With(re_findall_words(lower(text)), LAMBDA words :
    With(SelectSeq(words, LAMBDA w : w \notin stop_words /\ Len(w) > 2), LAMBDA filtered_words :
    With(MostCommon(FirstOccurrences(filtered_words, 1), filtered_words), LAMBDA ranked :
        SubSeq(ranked, 1, Min(20, Len(ranked))))))

\* lines 44-95 of analyze: everything an uncached analysis computes except
\* processing_time; "ValidationError" when ContentProfile(...) rejects a field
ComputeAnalysis(text, env) ==
    With(split(text), LAMBDA words :
    With(_split_sentences(text), LAMBDA sentences :
    With(detect_emotion(text, env), LAMBDA detected :
    With(classify_content(text), LAMBDA classified :
    With(_assess_difficulty(text), LAMBDA difficulty :
    With([emotion |-> detected[1],
          content_type |-> classified[1],
          difficulty |-> difficulty,
          emotion_intensity |-> detected[2],
          reading_speed |-> _estimate_reading_speed(text, classified[1]),
          key_themes |-> _extract_key_themes(text),
          recommended_theme |->
              _determine_recommended_theme(detected[1], classified[1], difficulty),
          confidence |-> classified[2]], LAMBDA profile :
        IF ~ContentProfileValid(profile) THEN [error |-> "ValidationError"]
        ELSE [text |-> text,
              profile |-> profile,
              word_count |-> Len(words),
              character_count |-> Len(text),
              sentences |-> sentences,
              keywords |-> _extract_keywords(text)]))))))

(***************************************************************************)
(* src/emotional_decoration/models.py: ColorScheme, VisualEffect           *)
(***************************************************************************)
HexChars == "0123456789abcdef"

\* int(c, 16) of one hexadecimal digit, either case
HexValue(c) ==
    (CHOOSE k \in 1..Len(HexChars) : CharAt(HexChars, k) = lower(c)) - 1

HexCharSet == CharsOf(HexChars)

IsHexChar(c) == lower(c) \in HexCharSet

\* Field(pattern=r'^#[0-9A-Fa-f]{6}$')
HexColorValid(s) ==
    /\ Len(s) = 7
    /\ CharAt(s, 1) = "#"
    /\ \A i \in 2..7 : IsHexChar(CharAt(s, i))

ColorFields ==
    {"primary_start", "primary_end", "background_start", "background_end",
     "accent_color", "glow_color"}

\* ColorScheme(**colors): the six fields, each a #RRGGBB string
ColorSchemeValid(colors) ==
    /\ DOMAIN colors = ColorFields
    /\ \A k \in ColorFields : HexColorValid(colors[k])

\* VisualEffect(**effect_config): the declared ranges
VisualEffectValid(e) ==
    /\ RLe(Zero, e.glow_intensity) /\ RLe(e.glow_intensity, One)
    /\ RGt(e.animation_speed, Zero)
    /\ RLe(Zero, e.blur_radius)
    /\ e.gradient_angle >= 0 /\ e.gradient_angle <= 360
    /\ RLe(Zero, e.shadow_intensity) /\ RLe(e.shadow_intensity, One)

(***************************************************************************)
(* src/emotional_decoration/themes/theme_loader.py                         *)
(***************************************************************************)
RECURSIVE Unique(_, _, _)
\* lines 205-211: drop repeats and names that are not loaded, order kept
Unique(recommendations, loaded, i) ==
    IF i > Len(recommendations) THEN <<>>
    ELSE (IF /\ \A j \in 1..(i - 1) : recommendations[j] # recommendations[i]
             /\ recommendations[i] \in DOMAIN loaded
          THEN <<recommendations[i]>> ELSE <<>>)
         \o Unique(recommendations, loaded, i + 1)

\* the professional branch choosing by difficulty as the learning branch does
find_themes_for_profile_by_difficulty(loaded, emotion, content_type, difficulty) ==
    LET primary ==
            IF content_type = "learning"
            THEN (IF difficulty \in {"easy", "medium"} THEN <<"learning_energetic">>
                  ELSE <<"learning_focused">>)
            ELSE IF content_type = "professional"
            THEN (IF difficulty \in {"easy", "medium"} THEN <<"professional_positive">>
                  ELSE <<"professional_minimal">>)
            ELSE IF content_type \in {"narrative", "creative", "entertainment"}
            THEN (IF emotion \in {"happy", "excited"} THEN <<"emotional_vibrant">>
                  ELSE IF emotion \in {"calm", "neutral"} THEN <<"emotional_serene">>
                  ELSE <<"emotional_vibrant">>)
            ELSE <<>>
        fallbacks ==
            IF content_type = "learning" THEN <<"learning_focused", "learning_energetic">>
            ELSE IF content_type = "professional"
            THEN <<"professional_minimal", "professional_positive">>
            ELSE <<"emotional_serene", "emotional_vibrant">>
    IN  With(Unique(primary \o fallbacks, loaded, 1), LAMBDA unique_recommendations :
            SubSeq(unique_recommendations, 1, Min(3, Len(unique_recommendations))))

\* lines 164-213
find_themes_for_profile(loaded, emotion, content_type, difficulty) ==
    LET primary ==
            IF content_type = "learning"
            THEN (IF difficulty \in {"easy", "medium"} THEN <<"learning_energetic">>
                  ELSE <<"learning_focused">>)
            ELSE IF content_type = "professional"
            THEN (IF emotion \in {"happy", "excited"} THEN <<"professional_positive">>
                  ELSE <<"professional_minimal">>)
            ELSE IF content_type \in {"narrative", "creative", "entertainment"}
            THEN (IF emotion \in {"happy", "excited"} THEN <<"emotional_vibrant">>
                  ELSE IF emotion \in {"calm", "neutral"} THEN <<"emotional_serene">>
                  ELSE <<"emotional_vibrant">>)
            ELSE <<>>
        fallbacks ==
            IF content_type = "learning" THEN <<"learning_focused", "learning_energetic">>
            ELSE IF content_type = "professional"
            THEN <<"professional_minimal", "professional_positive">>
            ELSE <<"emotional_serene", "emotional_vibrant">>
    IN  With(Unique(primary \o fallbacks, loaded, 1), LAMBDA unique_recommendations :
            SubSeq(unique_recommendations, 1, Min(3, Len(unique_recommendations))))

\* _load_theme_file on a YAML file that gives a name and a compatibility list
\* and leaves every other key to its default
LoadedTheme(name, compatibility) ==
    [name |-> name,
     description |-> "",
     colors |-> [primary_start |-> "#4A90E2", primary_end |-> "#7ED321",
                 background_start |-> "#000428", background_end |-> "#004e92",
                 accent_color |-> "#50E3C2", glow_color |-> "#4A90E2"],
     effects |-> [glow_intensity |-> Frac(3, 10), animation_speed |-> One,
                  blur_radius |-> Zero, pulse_enabled |-> FALSE, gradient_angle |-> 45,
                  shadow_enabled |-> TRUE, shadow_intensity |-> Frac(5, 10)],
     typography |-> <<>>,
     compatibility |-> compatibility]

(***************************************************************************)
(* src/emotional_decoration/coloring/theme_generator.py: the pure steps    *)
(***************************************************************************)

base_color_palettes ==
    [learning_focused |->
        [primary_start |-> "#4A90E2", primary_end |-> "#7ED321",
         background_start |-> "#000428", background_end |-> "#004e92",
         accent_color |-> "#50E3C2", glow_color |-> "#4A90E2"],
     learning_energetic |->
        [primary_start |-> "#FF6B6B", primary_end |-> "#4ECDC4",
         background_start |-> "#134E5E", background_end |-> "#71B280",
         accent_color |-> "#45B7D1", glow_color |-> "#FF6B6B"],
     learning_supportive |->
        [primary_start |-> "#A8E6CF", primary_end |-> "#88D8A3",
         background_start |-> "#2C3E50", background_end |-> "#4A6741",
         accent_color |-> "#7FB069", glow_color |-> "#A8E6CF"],
     learning_accessible |->
        [primary_start |-> "#6C5CE7", primary_end |-> "#A29BFE",
         background_start |-> "#2D3436", background_end |-> "#636E72",
         accent_color |-> "#74B9FF", glow_color |-> "#6C5CE7"],
     professional_minimal |->
        [primary_start |-> "#2F3542", primary_end |-> "#57606F",
         background_start |-> "#F8F9FA", background_end |-> "#E9ECEF",
         accent_color |-> "#3742FA", glow_color |-> "#2F3542"],
     professional_positive |->
        [primary_start |-> "#00B894", primary_end |-> "#00CEC9",
         background_start |-> "#DDD6FE", background_end |-> "#E0E7FF",
         accent_color |-> "#0984E3", glow_color |-> "#00B894"],
     professional_subtle |->
        [primary_start |-> "#636E72", primary_end |-> "#B2BEC3",
         background_start |-> "#2D3436", background_end |-> "#636E72",
         accent_color |-> "#74B9FF", glow_color |-> "#636E72"],
     professional_sophisticated |->
        [primary_start |-> "#2D3436", primary_end |-> "#636E72",
         background_start |-> "#1A1A1A", background_end |-> "#2D3436",
         accent_color |-> "#FDCB6E", glow_color |-> "#2D3436"],
     emotional_vibrant |->
        [primary_start |-> "#FF7675", primary_end |-> "#FDCB6E",
         background_start |-> "#6C5CE7", background_end |-> "#A29BFE",
         accent_color |-> "#FD79A8", glow_color |-> "#FF7675"],
     emotional_serene |->
        [primary_start |-> "#81ECEC", primary_end |-> "#74B9FF",
         background_start |-> "#2D3436", background_end |-> "#636E72",
         accent_color |-> "#00B894", glow_color |-> "#81ECEC"],
     emotional_contemplative |->
        [primary_start |-> "#A29BFE", primary_end |-> "#6C5CE7",
         background_start |-> "#2D3436", background_end |-> "#636E72",
         accent_color |-> "#74B9FF", glow_color |-> "#A29BFE"]]

emotion_colors ==
    [happy |->
        [primary_start |-> "#FFD93D", primary_end |-> "#FF6B6B",
         background_start |-> "#74B9FF", background_end |-> "#0984E3",
         accent_color |-> "#00B894", glow_color |-> "#FFD93D"],
     excited |->
        [primary_start |-> "#FF6B6B", primary_end |-> "#4ECDC4",
         background_start |-> "#A29BFE", background_end |-> "#6C5CE7",
         accent_color |-> "#FDCB6E", glow_color |-> "#FF6B6B"],
     calm |->
        [primary_start |-> "#81ECEC", primary_end |-> "#74B9FF",
         background_start |-> "#2D3436", background_end |-> "#636E72",
         accent_color |-> "#00B894", glow_color |-> "#81ECEC"],
     sad |->
        [primary_start |-> "#A29BFE", primary_end |-> "#6C5CE7",
         background_start |-> "#2D3436", background_end |-> "#636E72",
         accent_color |-> "#74B9FF", glow_color |-> "#A29BFE"],
     angry |->
        [primary_start |-> "#E17055", primary_end |-> "#D63031",
         background_start |-> "#2D3436", background_end |-> "#636E72",
         accent_color |-> "#FDCB6E", glow_color |-> "#E17055"],
     fearful |->
        [primary_start |-> "#636E72", primary_end |-> "#B2BEC3",
         background_start |-> "#2D3436", background_end |-> "#636E72",
         accent_color |-> "#74B9FF", glow_color |-> "#636E72"],
     surprised |->
        [primary_start |-> "#FDCB6E", primary_end |-> "#E17055",
         background_start |-> "#6C5CE7", background_end |-> "#A29BFE",
         accent_color |-> "#FF7675", glow_color |-> "#FDCB6E"],
     neutral |->
        [primary_start |-> "#2F3542", primary_end |-> "#57606F",
         background_start |-> "#F8F9FA", background_end |-> "#E9ECEF",
         accent_color |-> "#3742FA", glow_color |-> "#2F3542"]]

effect_templates ==
    [subtle |->
        [glow_intensity |-> Frac(2, 10), animation_speed |-> Frac(10, 10),
         blur_radius |-> Frac(0, 10), pulse_enabled |-> FALSE, gradient_angle |->
         45, shadow_enabled |-> TRUE, shadow_intensity |-> Frac(3, 10)],
     moderate |->
        [glow_intensity |-> Frac(4, 10), animation_speed |-> Frac(10, 10),
         blur_radius |-> Frac(5, 10), pulse_enabled |-> TRUE, gradient_angle |->
         90, shadow_enabled |-> TRUE, shadow_intensity |-> Frac(5, 10)],
     vibrant |->
        [glow_intensity |-> Frac(6, 10), animation_speed |-> Frac(12, 10),
         blur_radius |-> Frac(10, 10), pulse_enabled |-> TRUE, gradient_angle |->
         135, shadow_enabled |-> TRUE, shadow_intensity |-> Frac(7, 10)],
     energetic |->
        [glow_intensity |-> Frac(8, 10), animation_speed |-> Frac(15, 10),
         blur_radius |-> Frac(15, 10), pulse_enabled |-> TRUE, gradient_angle |->
         180, shadow_enabled |-> TRUE, shadow_intensity |-> Frac(8, 10)]]
RECURSIVE lstrip_hash(_)
\* hex_color.lstrip('#')
lstrip_hash(s) ==
    IF s # "" /\ CharAt(s, 1) = "#" THEN lstrip_hash(SubSeq(s, 2, Len(s))) ELSE s

\* hex_to_rgb of _blend_hex_colors: the three channels of a colour string
hex_to_rgb(hex_color) ==
    With(lstrip_hash(hex_color), LAMBDA h :
        Dict([i \in 1..3 |-> 16 * HexValue(CharAt(h, 2 * i - 1)) + HexValue(CharAt(h, 2 * i))]))

\* rgb_to_hex of _blend_hex_colors: '#%02x%02x%02x' % rgb
rgb_to_hex(rgb) ==
    LET Pair(v) == CharAt(HexChars, (v \div 16) + 1) \o CharAt(HexChars, (v % 16) + 1)
    IN  "#" \o Pair(rgb[1]) \o Pair(rgb[2]) \o Pair(rgb[3])

\* int(x) of a non-negative rational
Truncate(x) == x[1] \div x[2]

\* _blend_hex_colors rounding every blended channel up instead of truncating it
_blend_hex_colors_rounding_up(color1, color2, ratio) ==
    With(hex_to_rgb(color1), LAMBDA rgb1 :
    With(hex_to_rgb(color2), LAMBDA rgb2 :
        rgb_to_hex(
            Dict([i \in 1..3 |->
                     -Truncate(RSub(Zero, RAdd(RMul(R(rgb1[i]), RSub(One, ratio)),
                                               RMul(R(rgb2[i]), ratio))))]))))

_blend_hex_colors(color1, color2, ratio) ==
    With(hex_to_rgb(color1), LAMBDA rgb1 :
    With(hex_to_rgb(color2), LAMBDA rgb2 :
        rgb_to_hex(
            Dict([i \in 1..3 |->
                     Truncate(RAdd(RMul(R(rgb1[i]), RSub(One, ratio)),
                                   RMul(R(rgb2[i]), ratio)))]))))

_blend_colors(color1, color2, ratio) ==
    Dict([key \in DOMAIN color1 |->
             IF key \in DOMAIN color2 THEN _blend_hex_colors(color1[key], color2[key], ratio)
             ELSE color1[key]])

_generate_colors_from_profile(profile) ==
    With(IF profile.emotion \in DOMAIN emotion_colors THEN emotion_colors[profile.emotion]
         ELSE emotion_colors["neutral"], LAMBDA base_colors :
        IF profile.content_type = "learning"
        THEN _blend_colors(base_colors, base_color_palettes["learning_focused"], Frac(1, 2))
        ELSE IF profile.content_type = "professional"
        THEN _blend_colors(base_colors, base_color_palettes["professional_minimal"],
                           Frac(1, 2))
        ELSE base_colors)

\* lines 463-476: the three adjustments return the colours they are given
_increase_saturation(colors, amount) == colors
_decrease_saturation(colors, amount) == colors
_adjust_brightness(colors, amount) == colors

_adjust_colors_for_emotion(colors, profile) ==
    IF RGt(profile.emotion_intensity, Frac(7, 10))
    THEN _increase_saturation(colors, Frac(2, 10))
    ELSE IF RLt(profile.emotion_intensity, Frac(3, 10))
    THEN _decrease_saturation(colors, Frac(2, 10))
    ELSE colors

_adjust_colors_for_intensity(colors, profile) ==
    IF profile.difficulty = "expert" THEN _adjust_brightness(colors, Frac(-1, 10))
    ELSE IF profile.difficulty = "easy" THEN _adjust_brightness(colors, Frac(1, 10))
    ELSE colors

\* _generate_color_scheme looking the recommended theme up in the palettes
\* with no fallback: an unknown name is a KeyError
_generate_color_scheme_from_palettes_only(profile) ==
    IF profile.recommended_theme \in DOMAIN base_color_palettes
    THEN _adjust_colors_for_intensity(
             _adjust_colors_for_emotion(base_color_palettes[profile.recommended_theme],
                                        profile), profile)
    ELSE [error |-> "KeyError"]

\* the colour dictionary handed to ColorScheme(**final_colors)
_generate_color_scheme(profile) ==
    With(profile.recommended_theme, LAMBDA theme_key :
    With(IF theme_key \in DOMAIN base_color_palettes
         THEN base_color_palettes[theme_key]
         ELSE _generate_colors_from_profile(profile), LAMBDA base_colors :
    With(_adjust_colors_for_emotion(base_colors, profile), LAMBDA adjusted_colors :
        _adjust_colors_for_intensity(adjusted_colors, profile))))

\* _generate_visual_effects with the glow of entertainment content multiplied
\* by 1.3 instead of 1.1
_generate_visual_effects_brighter_entertainment(profile, template_type) ==
    With(IF RGt(profile.emotion_intensity, Frac(8, 10)) THEN "energetic"
         ELSE IF RGt(profile.emotion_intensity, Frac(6, 10)) THEN "vibrant"
         ELSE IF RGt(profile.emotion_intensity, Frac(3, 10)) THEN "moderate"
         ELSE "subtle", LAMBDA base_effect :
    With(effect_templates[base_effect], LAMBDA base :
    With(IF profile.content_type = "learning"
         THEN [base EXCEPT !.animation_speed = RMul(@, Frac(8, 10)),
                           !.glow_intensity = RMul(@, Frac(9, 10))]
         ELSE IF profile.content_type = "professional"
         THEN [base EXCEPT !.animation_speed = RMul(@, Frac(7, 10)),
                           !.glow_intensity = RMul(@, Frac(6, 10)),
                           !.pulse_enabled = FALSE]
         ELSE IF profile.content_type = "entertainment"
         THEN [base EXCEPT !.animation_speed = RMul(@, Frac(12, 10)),
                           !.glow_intensity = RMul(@, Frac(13, 10))]
         ELSE base, LAMBDA by_content :
        IF template_type = "railway" THEN [by_content EXCEPT !.gradient_angle = 0]
        ELSE IF template_type = "scroll"
        THEN [by_content EXCEPT !.animation_speed = RMul(@, Frac(8, 10))]
        ELSE by_content)))

\* _generate_visual_effects with the presets chosen by >= instead of >
_generate_visual_effects_inclusive_thresholds(profile, template_type) ==
    With(IF RLe(Frac(8, 10), profile.emotion_intensity) THEN "energetic"
         ELSE IF RLe(Frac(6, 10), profile.emotion_intensity) THEN "vibrant"
         ELSE IF RLe(Frac(3, 10), profile.emotion_intensity) THEN "moderate"
         ELSE "subtle", LAMBDA base_effect :
    With(effect_templates[base_effect], LAMBDA base :
    With(IF profile.content_type = "learning"
         THEN [base EXCEPT !.animation_speed = RMul(@, Frac(8, 10)),
                           !.glow_intensity = RMul(@, Frac(9, 10))]
         ELSE IF profile.content_type = "professional"
         THEN [base EXCEPT !.animation_speed = RMul(@, Frac(7, 10)),
                           !.glow_intensity = RMul(@, Frac(6, 10)),
                           !.pulse_enabled = FALSE]
         ELSE IF profile.content_type = "entertainment"
         THEN [base EXCEPT !.animation_speed = RMul(@, Frac(12, 10)),
                           !.glow_intensity = RMul(@, Frac(11, 10))]
         ELSE base, LAMBDA by_content :
        IF template_type = "railway" THEN [by_content EXCEPT !.gradient_angle = 0]
        ELSE IF template_type = "scroll"
        THEN [by_content EXCEPT !.animation_speed = RMul(@, Frac(8, 10))]
        ELSE by_content)))

\* the effect dictionary handed to VisualEffect(**effect_config)
_generate_visual_effects(profile, template_type) ==
    With(IF RGt(profile.emotion_intensity, Frac(8, 10)) THEN "energetic"
         ELSE IF RGt(profile.emotion_intensity, Frac(6, 10)) THEN "vibrant"
         ELSE IF RGt(profile.emotion_intensity, Frac(3, 10)) THEN "moderate"
         ELSE "subtle", LAMBDA base_effect :
    With(effect_templates[base_effect], LAMBDA base :
    With(IF profile.content_type = "learning"
         THEN [base EXCEPT !.animation_speed = RMul(@, Frac(8, 10)),
                           !.glow_intensity = RMul(@, Frac(9, 10))]
         ELSE IF profile.content_type = "professional"
         THEN [base EXCEPT !.animation_speed = RMul(@, Frac(7, 10)),
                           !.glow_intensity = RMul(@, Frac(6, 10)),
                           !.pulse_enabled = FALSE]
         ELSE IF profile.content_type = "entertainment"
         THEN [base EXCEPT !.animation_speed = RMul(@, Frac(12, 10)),
                           !.glow_intensity = RMul(@, Frac(11, 10))]
         ELSE base, LAMBDA by_content :
        IF template_type = "railway" THEN [by_content EXCEPT !.gradient_angle = 0]
        ELSE IF template_type = "scroll"
        THEN [by_content EXCEPT !.animation_speed = RMul(@, Frac(8, 10))]
        ELSE by_content)))

_generate_typography(profile) ==
    LET typography ==
            [font_weight |-> "normal", letter_spacing |-> "normal",
             line_height |-> "1.6", text_transform |-> "none"]
        by_content ==
            IF profile.content_type = "professional"
            THEN [typography EXCEPT !.font_weight = "500", !.letter_spacing = "0.01em"]
            ELSE IF profile.content_type = "learning"
            THEN [typography EXCEPT !.line_height = "1.8", !.letter_spacing = "0.02em"]
            ELSE IF profile.content_type = "creative"
            THEN [typography EXCEPT !.font_weight = "300", !.letter_spacing = "0.05em"]
            ELSE typography
    IN  IF profile.difficulty = "expert"
        THEN [by_content EXCEPT !.font_weight = "600", !.letter_spacing = "0.01em"]
        ELSE IF profile.difficulty = "easy"
        THEN [by_content EXCEPT !.font_weight = "400", !.letter_spacing = "0.03em"]
        ELSE by_content

ToUpperMap == [c \in CharsOf(LowerChars) |->
                 LET i == CHOOSE k \in 1..Len(LowerChars) : CharAt(LowerChars, k) = c
                 IN  CharAt(UpperChars, i)]

LetterCharSet == CharsOf(LowerChars) \cup CharsOf(UpperChars)

IsLetter(c) == c \in LetterCharSet

RECURSIVE TitleFrom(_, _, _)
TitleFrom(s, i, after_letter) ==
    IF i > Len(s) THEN ""
    ELSE LET c == CharAt(s, i)
             out == IF ~IsLetter(c) THEN c
                    ELSE IF after_letter
                    THEN (IF c \in DOMAIN ToLowerMap THEN ToLowerMap[c] ELSE c)
                    ELSE (IF c \in DOMAIN ToUpperMap THEN ToUpperMap[c] ELSE c)
         IN  out \o TitleFrom(s, i + 1, IsLetter(c))

\* str.title()
title(s) == TitleFrom(s, 1, FALSE)

\* f"{x:.1f}" for 0 <= x <= 1.  A value that lies exactly between two tenths
\* is printed as the float nearest to it rounds: 0.05, 0.45, 0.55, 0.65 and
\* 0.75 go up, 0.15, 0.25, 0.35, 0.85 and 0.95 go down.
Format1f(x) ==
    LET q == (10 * x[1]) \div x[2]
        rest == (10 * x[1]) % x[2]
        tenths == IF 2 * rest > x[2] THEN q + 1
                  ELSE IF 2 * rest < x[2] THEN q
                  ELSE IF q \in {0, 4, 5, 6, 7} THEN q + 1
                  ELSE q
    IN  CharAt(DigitChars, (tenths \div 10) + 1) \o "."
        \o CharAt(DigitChars, (tenths % 10) + 1)

_generate_theme_name(profile) ==
    LET emotion_name == title(profile.emotion)
        content_name == title(profile.content_type)
        intensity == IF RGt(profile.emotion_intensity, Frac(6, 10)) THEN "High" ELSE "Low"
    IN  emotion_name \o " " \o content_name \o " (" \o intensity \o " Intensity)"

_generate_theme_description(profile) ==
    "A " \o profile.emotion \o " theme optimized for " \o profile.content_type
    \o " content with " \o profile.difficulty \o " difficulty level and "
    \o Format1f(profile.emotion_intensity) \o " emotion intensity."

_generate_cache_key(profile, template_type) ==
    profile.emotion \o "_" \o profile.content_type \o "_" \o profile.difficulty
    \o "_" \o template_type \o "_" \o Format1f(profile.emotion_intensity)

\* lines 48-60: the theme generated when no predefined theme applies
generated_theme(profile, template_type) ==
    With(_generate_color_scheme(profile), LAMBDA colors :
    With(_generate_visual_effects(profile, template_type), LAMBDA effects :
        IF ~ColorSchemeValid(colors) \/ ~VisualEffectValid(effects)
        THEN [error |-> "ValidationError"]
        ELSE [name |-> _generate_theme_name(profile),
              description |-> _generate_theme_description(profile),
              colors |-> colors,
              effects |-> effects,
              typography |-> _generate_typography(profile),
              compatibility |-> <<template_type>>]))

\* lines 64-66 and 212-229: ColorScheme(**final_colors), or the
\* ValidationError of a field that is not #RRGGBB
generate_color_scheme(profile) ==
    With(_generate_color_scheme(profile), LAMBDA final_colors :
        IF ColorSchemeValid(final_colors) THEN final_colors
        ELSE [error |-> "ValidationError"])

\* lines 68-70 and 350-382: VisualEffect(**effect_config), or the
\* ValidationError of a field outside its range
generate_visual_effects(profile, template_type) ==
    With(_generate_visual_effects(profile, template_type), LAMBDA effect_config :
        IF VisualEffectValid(effect_config) THEN effect_config
        ELSE [error |-> "ValidationError"])

(***************************************************************************)
(* The state of the program.                                               *)
(***************************************************************************)
VARIABLES
    sentiment_env,     \* TEXTBLOB_AVAILABLE and what the sentiment step yields; fixed per run
    analysis_cache,    \* ContentAnalyzer.analysis_cache: text -> AnalysisResult
    theme_cache,       \* ThemeGenerator.theme_cache: cache key -> ThemeConfig object
    loaded_themes,     \* ThemeLoader.loaded_themes: theme name -> ThemeConfig object
    performance_stats, \* DecorationEngine.performance_stats
    requested,         \* history: the texts passed to analyze with use_cache=True
                       \* since construction or the last clear_cache
    returned,          \* history: text -> what the last analyze(text, use_cache=True)
                       \* returned, as it was when returned; emptied by clear_cache
    input,             \* the argument a pure function is applied to
    threads,           \* the concurrent analyze calls in progress: what each was
                       \* given, where it stands and what it holds
    call               \* the operation that completed last, its arguments and its result

vars == <<sentiment_env, analysis_cache, theme_cache, loaded_themes, performance_stats,
          requested, returned, input, threads, call>>

\* time.time() - start_time: 0 stands for "no measurable time", 1 for any longer span
Durations == {0, 1}

\* the texts callers hand to the analyzer
MachineTexts == {"", "happy", "Happy", "happy "}
\* the texts analyze_batch draws its lists from
BatchTexts == {"", "happy"}
\* the texts of the requests made to the engine
EngineTexts == {"", "happy"}
\* the sentiment environments the state machines run in
MachineEnvs ==
    {FallbackEnv, [mode |-> "textblob", polarity |-> R(-1), subjectivity |-> One]}

\* Python's None, and the truth value of an Optional[str]
None == "None"
Truthy(x) == x # None /\ x # ""

\* memo of ComputeAnalysis on the texts and environments of the state machines
AnalysisTable ==
    [env \in MachineEnvs |-> [t \in MachineTexts |-> ComputeAnalysis(t, env)]]

Raised(r) == "error" \in DOMAIN r

EmptyCache == [t \in {} |-> 0]

\* the themes directory: absent, or holding YAML files for these names
NoThemes == EmptyCache
ProfessionalThemes ==
    [n \in {"professional_positive", "professional_minimal"} |->
        LoadedTheme(n, <<"typewriter">>)]
StockThemes ==
    [n \in {"learning_focused", "learning_energetic", "professional_positive",
            "professional_minimal", "emotional_vibrant", "emotional_serene"} |->
        LoadedTheme(n, IF n = "emotional_serene" THEN <<"scroll", "typewriter">>
                       ELSE <<"typewriter">>)]

\* the template types and theme preferences callers pass
TemplateTypes == {"typewriter", "railway", "scroll"}
EngineTemplates == {"typewriter"}
ThemePreferences == {None, "custom"}

Profile(emotion, content_type, difficulty, emotion_intensity, recommended_theme) ==
    [emotion |-> emotion, content_type |-> content_type, difficulty |-> difficulty,
     emotion_intensity |-> emotion_intensity, reading_speed |-> R(250),
     key_themes |-> <<>>, recommended_theme |-> recommended_theme,
     confidence |-> Frac(1, 2)]

\* the second and third share a cache key (0.72 and 0.7 both print as 0.7)
ThemeProfiles ==
    {Profile("neutral", "narrative", "easy", Zero, "emotional_serene"),
     Profile("happy", "professional", "medium", Frac(7, 10), "professional_positive"),
     Profile("happy", "professional", "medium", Frac(72, 100), "custom"),
     Profile("sad", "technical", "expert", One, "professional_subtle")}

\* profiles whose candidate lists differ by difficulty (learning), and one
\* with fallbacks only (technical)
LookupProfiles ==
    {Profile("happy", "learning", "easy", Frac(1, 2), ""),
     Profile("happy", "learning", "expert", Frac(1, 2), ""),
     Profile("sad", "technical", "medium", Frac(1, 2), "")}

\* theme directories holding YAML files for these names
ThemesNamed(names) == [n \in names |-> LoadedTheme(n, <<"typewriter">>)]
LoadedThemeSets ==
    {NoThemes, StockThemes,
     ThemesNamed({"learning_focused", "learning_energetic"}),
     ThemesNamed({"learning_focused", "emotional_vibrant"}),
     ThemesNamed({"learning_energetic", "emotional_serene", "emotional_vibrant"}),
     ThemesNamed({"professional_minimal", "emotional_serene", "my_theme"})}

\* the profiles the engine hands to the theme generator: those of the
\* analyses, as computed and with the recommended theme overridden
EngineProfiles ==
    UNION { { profile, [profile EXCEPT !.recommended_theme = "custom"] } :
            profile \in { AnalysisTable[env][t].profile :
                              env \in MachineEnvs, t \in MachineTexts } }

\* memo of the cache key and of the generated theme on the profiles and
\* template types of the state machines
ThemeTable ==
    [profile \in ThemeProfiles \cup LookupProfiles \cup EngineProfiles |->
        [template_type \in TemplateTypes |->
            [cache_key |-> _generate_cache_key(profile, template_type),
             theme |-> generated_theme(profile, template_type)]]]

(***************************************************************************)
(* ContentAnalyzer: the stateful operations                                *)
(***************************************************************************)
\* an uncached analysis of text, read from the memo where it has the text
Computed(text, env) ==
    IF env \in MachineEnvs /\ text \in MachineTexts THEN AnalysisTable[env][text]
    ELSE ComputeAnalysis(text, env)

\* the hit rebuilding the stored object and leaving its sentences out
cached_result_without_sentences(cache, text, elapsed) ==
    [cache[text] EXCEPT !.processing_time = elapsed, !.sentences = <<>>]

\* lines 39-41 of analyze: the stored object with processing_time refreshed
cached_result(cache, text, elapsed) ==
    [cache[text] EXCEPT !.processing_time = elapsed]

\* lines 44-95 of analyze: the AnalysisResult of an uncached analysis
fresh_result(text, elapsed, env) ==
    With(Computed(text, env), LAMBDA computed :
        IF Raised(computed) THEN computed
        ELSE [text |-> computed.text,
              profile |-> computed.profile,
              processing_time |-> elapsed,
              word_count |-> computed.word_count,
              character_count |-> computed.character_count,
              sentences |-> computed.sentences,
              keywords |-> computed.keywords])

\* analyze looking up and storing under the stripped text
analyze_keyed_by_stripped_text(cache, text, use_cache, elapsed, env) ==
    With(strip(text), LAMBDA key :
        IF use_cache /\ key \in DOMAIN cache
        THEN With(cached_result(cache, key, elapsed), LAMBDA hit :
                 [cache |-> [cache EXCEPT ![key] = hit], ret |-> hit, hit |-> TRUE])
        ELSE With(fresh_result(text, elapsed, env), LAMBDA result :
                 IF Raised(result) THEN [cache |-> cache, ret |-> result, hit |-> FALSE]
                 ELSE [cache |-> IF use_cache
                                 THEN [t \in DOMAIN cache \cup {key} |->
                                          IF t = key THEN result ELSE cache[t]]
                                 ELSE cache,
                       ret |-> result, hit |-> FALSE]))

\* analyze consulting and filling the cache whatever use_cache says
analyze_ignoring_use_cache(cache, text, use_cache, elapsed, env) ==
    IF text \in DOMAIN cache
    THEN With(cached_result(cache, text, elapsed), LAMBDA hit :
             [cache |-> [cache EXCEPT ![text] = hit], ret |-> hit, hit |-> TRUE])
    ELSE With(fresh_result(text, elapsed, env), LAMBDA result :
             IF Raised(result) THEN [cache |-> cache, ret |-> result, hit |-> FALSE]
             ELSE [cache |-> [t \in DOMAIN cache \cup {text} |->
                                 IF t = text THEN result ELSE cache[t]],
                   ret |-> result, hit |-> FALSE])

\* analyze(text, use_cache) on the cache `cache`: the cache it leaves and the
\* AnalysisResult it returns (the returned object is the cached object)
analyze(cache, text, use_cache, elapsed, env) ==
    IF use_cache /\ text \in DOMAIN cache
    THEN With(cached_result(cache, text, elapsed), LAMBDA hit :
             [cache |-> [cache EXCEPT ![text] = hit], ret |-> hit, hit |-> TRUE])
    ELSE With(fresh_result(text, elapsed, env), LAMBDA result :
             IF Raised(result) THEN [cache |-> cache, ret |-> result, hit |-> FALSE]
             ELSE [cache |-> IF use_cache
                             THEN [t \in DOMAIN cache \cup {text} |->
                                      IF t = text THEN result ELSE cache[t]]
                             ELSE cache,
                   ret |-> result, hit |-> FALSE])

RECURSIVE analyze_batch_distinct(_, _, _, _, _)
\* analyze_batch analysing every distinct text of the batch once
analyze_batch_distinct(cache, texts, use_cache, elapsed, env) ==
    IF texts = <<>> THEN [cache |-> cache, ret |-> <<>>, raised |-> FALSE]
    ELSE With(analyze(cache, Head(texts), use_cache, elapsed, env), LAMBDA first :
             IF Raised(first.ret)
             THEN [cache |-> first.cache, ret |-> first.ret, raised |-> TRUE]
             ELSE With(analyze_batch_distinct(first.cache,
                                              SelectSeq(Tail(texts), LAMBDA t : t # Head(texts)),
                                              use_cache, elapsed, env), LAMBDA rest :
                      IF rest.raised THEN rest
                      ELSE [cache |-> rest.cache, ret |-> <<first.ret>> \o rest.ret,
                            raised |-> FALSE]))

RECURSIVE analyze_batch(_, _, _, _, _)
\* [self.analyze(text, use_cache) for text in texts]; every analysis of the
\* batch measures the duration elapsed.  A raising analysis ends the batch.
analyze_batch(cache, texts, use_cache, elapsed, env) ==
    IF texts = <<>> THEN [cache |-> cache, ret |-> <<>>, raised |-> FALSE]
    ELSE With(analyze(cache, Head(texts), use_cache, elapsed, env), LAMBDA first :
             IF Raised(first.ret)
             THEN [cache |-> first.cache, ret |-> first.ret, raised |-> TRUE]
             ELSE With(analyze_batch(first.cache, Tail(texts), use_cache, elapsed, env),
                       LAMBDA rest :
                      IF rest.raised THEN rest
                      ELSE [cache |-> rest.cache, ret |-> <<first.ret>> \o rest.ret,
                            raised |-> FALSE]))

RECURSIVE SumLenOfSet(_)
SumLenOfSet(S) ==
    IF S = {} THEN 0
    ELSE LET t == CHOOSE x \in S : TRUE IN Len(t) + SumLenOfSet(S \ {t})

get_cache_stats(cache) ==
    [cache_size |-> Cardinality(DOMAIN cache),
     total_cached_chars |-> SumLenOfSet(DOMAIN cache)]

(***************************************************************************)
(* ThemeGenerator.generate_theme and its cache                             *)
(***************************************************************************)
\* A cache entry is either a predefined theme of the loader, held by
\* reference (the object is shared with loaded_themes and with every other
\* key cached for it), or a theme generated for the key.
Shared(name) == [shared |-> name]
Own(theme) == [theme |-> theme]
ThemeOf(entry, loaded) ==
    IF "shared" \in DOMAIN entry THEN loaded[entry.shared] ELSE entry.theme

\* the last of the recommended themes taken for the first
_get_predefined_theme_last_candidate(loaded, profile) ==
    With(find_themes_for_profile(loaded, profile.emotion, profile.content_type,
                                 profile.difficulty), LAMBDA recommended_themes :
        IF recommended_themes # <<>> THEN recommended_themes[Len(recommended_themes)]
        ELSE None)

\* lines 231-245: the name of the predefined theme for the profile, or None
_get_predefined_theme(loaded, profile) ==
    With(find_themes_for_profile(loaded, profile.emotion, profile.content_type,
                                 profile.difficulty), LAMBDA recommended_themes :
        IF recommended_themes # <<>> THEN recommended_themes[1] ELSE None)

\* the template type appended whether or not the list has it
predefined_compatibility_always_appended(compatibility, template_type) ==
    Append(compatibility, template_type)

\* lines 39-45: the compatibility list of the predefined theme after the call
predefined_compatibility(compatibility, template_type) ==
    IF ~InList(template_type, compatibility)
    THEN Append(compatibility, template_type)
    ELSE compatibility

Store(cache, key, value) ==
    [k \in DOMAIN cache \cup {key} |-> IF k = key THEN value ELSE cache[k]]

\* generate_theme(profile, template_type) on the caches `cache` and `loaded`:
\* what it leaves and the ThemeConfig it returns
generate_theme(cache, loaded, profile, template_type) ==
    With(ThemeTable[profile][template_type], LAMBDA computed :
        IF computed.cache_key \in DOMAIN cache
        THEN [theme_cache |-> cache, loaded_themes |-> loaded,
              ret |-> ThemeOf(cache[computed.cache_key], loaded), hit |-> TRUE]
        ELSE With(_get_predefined_theme(loaded, profile), LAMBDA predefined :
             IF predefined # None
             THEN With([loaded EXCEPT ![predefined].compatibility =
                           predefined_compatibility(@, template_type)], LAMBDA updated :
                      [theme_cache |-> Store(cache, computed.cache_key, Shared(predefined)),
                       loaded_themes |-> updated,
                       ret |-> updated[predefined], hit |-> FALSE])
             ELSE IF Raised(computed.theme)
                  THEN [theme_cache |-> cache, loaded_themes |-> loaded,
                        ret |-> computed.theme, hit |-> FALSE]
                  ELSE [theme_cache |-> Store(cache, computed.cache_key, Own(computed.theme)),
                        loaded_themes |-> loaded,
                        ret |-> computed.theme, hit |-> FALSE]))

(***************************************************************************)
(* DecorationEngine                                                        *)
(***************************************************************************)
\* An Optional[ColorScheme] / Optional[VisualEffect] is the empty tuple for
\* None and a one-element tuple holding the object otherwise.
CustomColors ==
    [primary_start |-> "#FF0000", primary_end |-> "#00FF00",
     background_start |-> "#000000", background_end |-> "#FFFFFF",
     accent_color |-> "#0000FF", glow_color |-> "#FF0000"]
CustomEffects ==
    [glow_intensity |-> One, animation_speed |-> R(2), blur_radius |-> Zero,
     pulse_enabled |-> TRUE, gradient_angle |-> 180, shadow_enabled |-> FALSE,
     shadow_intensity |-> Zero]

\* render_decoration builds strings from the theme and changes nothing; of
\* the output the model keeps the theme object and the stylesheet's header
\* line, which names the theme
render_decoration(theme_config, template_type) ==
    [css_content |-> "Emotional Decoration Theme: " \o theme_config.name,
     theme_config |-> theme_config]

_create_custom_theme(profile, custom_colors, custom_effects, template_type) ==
    With(IF custom_colors # <<>> THEN custom_colors[1]
         ELSE _generate_color_scheme(profile), LAMBDA colors :
    With(IF custom_effects # <<>> THEN custom_effects[1]
         ELSE _generate_visual_effects(profile, template_type), LAMBDA effects :
        IF ~ColorSchemeValid(colors) \/ ~VisualEffectValid(effects)
        THEN [error |-> "ValidationError"]
        ELSE [name |-> "Custom " \o title(profile.emotion) \o " Theme",
              description |-> "Custom theme for " \o profile.content_type \o " content",
              colors |-> colors,
              effects |-> effects,
              typography |-> _generate_typography(profile),
              compatibility |-> <<template_type>>]))

_update_performance_stats(stats, text, processing_time) ==
    LET char_count == Len(text)
        total_requests == stats.total_requests + 1
        chars_per_second == IF processing_time > 0 THEN Frac(char_count, processing_time)
                            ELSE Zero
        current_avg == stats.average_chars_per_second
    IN  [total_requests |-> total_requests,
         total_processing_time |-> stats.total_processing_time + processing_time,
         average_chars_per_second |->
             RDiv(RAdd(RMul(current_avg, R(total_requests - 1)), chars_per_second),
                  R(total_requests))]

\* lines 52-53 and 161-162: the override is an assignment to the profile of
\* the object analyze returned
override(result, theme_preference) ==
    IF Truthy(theme_preference)
    THEN [result EXCEPT !.profile.recommended_theme = theme_preference]
    ELSE result

\* the object analyze returned is the one the cache holds under its text
\* (it was just stored or just found there), so the assignment shows there
after_override(cache, text, result) ==
    IF text \in DOMAIN cache THEN [cache EXCEPT ![text] = result] ELSE cache

\* lines 93-126.  The handler builds DecorationOutput(theme_config=None) when
\* the failure came before theme_config was bound; DecorationOutput requires
\* a ThemeConfig, so that construction raises and the call raises with it.
failure_response(request, generation_time, theme_config, message) ==
    IF theme_config = <<>> THEN [error |-> "ValidationError"]
    ELSE [request |-> request,
          analysis |->
              [text |-> request.text,
               profile |-> [emotion |-> "neutral", content_type |-> "professional",
                            difficulty |-> "medium", emotion_intensity |-> Zero,
                            reading_speed |-> R(250), key_themes |-> <<>>,
                            recommended_theme |-> "professional", confidence |-> Zero],
               processing_time |-> 0,
               word_count |-> Len(split(request.text)),
               character_count |-> Len(request.text),
               sentences |-> <<>>,
               keywords |-> <<>>],
          output |-> [css_content |-> "", theme_config |-> theme_config[1]],
          generation_time |-> generation_time,
          success |-> FALSE,
          error_message |-> message]

\* process_decoration_request(request): what it leaves in the two caches,
\* the loader and the statistics, and what it returns; `analysed` is what
\* its call of analyze returned, before the override
process_decoration_request(cache, themes, loaded, stats, request, elapsed, generation_time, env) ==
    With(analyze(cache, request.text, TRUE, elapsed, env), LAMBDA analysed :
        IF Raised(analysed.ret)
        THEN With(failure_response(request, generation_time, <<>>, analysed.ret.error),
                  LAMBDA response :
                 [analysis_cache |-> analysed.cache, theme_cache |-> themes,
                  loaded_themes |-> loaded, performance_stats |-> stats,
                  analysed |-> analysed.ret, raised |-> Raised(response),
                  ret |-> response])
        ELSE
    With(override(analysed.ret, request.theme_preference), LAMBDA analysis_result :
    With(after_override(analysed.cache, request.text, analysis_result), LAMBDA overridden :
    With(IF request.custom_colors # <<>>
         THEN [theme_cache |-> themes, loaded_themes |-> loaded,
               ret |-> _create_custom_theme(analysis_result.profile,
                                            request.custom_colors,
                                            request.effects_config,
                                            request.template_type)]
         ELSE generate_theme(themes, loaded, analysis_result.profile,
                             request.template_type), LAMBDA themed :
        IF Raised(themed.ret)
        THEN With(failure_response(request, generation_time, <<>>, themed.ret.error),
                  LAMBDA response :
                 [analysis_cache |-> overridden, theme_cache |-> themes,
                  loaded_themes |-> loaded, performance_stats |-> stats,
                  analysed |-> analysed.ret, raised |-> Raised(response),
                  ret |-> response])
        ELSE [analysis_cache |-> overridden,
              theme_cache |-> themed.theme_cache,
              loaded_themes |-> themed.loaded_themes,
              performance_stats |->
                  _update_performance_stats(stats, request.text, generation_time),
              analysed |-> analysed.ret,
              raised |-> FALSE,
              ret |-> [request |-> request,
                       analysis |-> analysis_result,
                       output |-> render_decoration(themed.ret, request.template_type),
                       generation_time |-> generation_time,
                       success |-> TRUE,
                       error_message |-> None]]))))

\* the phases of lines 47-73 an exception can come from, and its text
Phases == {"analysis", "theme", "render"}
FailureText == "failure"

\* process_decoration_request(request) when the given phase raises an
\* Exception: line 93 catches it and lines 94-126 build the response.  A
\* failing analysis stores nothing; a failing theme generation comes after
\* the override of lines 52-53 and before theme_config is bound at line 57 or
\* 65; a failing rendering comes after the theme is generated and cached and
\* before the statistics are updated at line 80.
process_decoration_request_failing(cache, themes, loaded, stats, request, elapsed, generation_time, env, phase) ==
    IF phase = "analysis"
    THEN With(failure_response(request, generation_time, <<>>, FailureText), LAMBDA response :
             [analysis_cache |-> cache, theme_cache |-> themes,
              loaded_themes |-> loaded, performance_stats |-> stats,
              analysed |-> [error |-> FailureText], raised |-> Raised(response),
              ret |-> response])
    ELSE
    With(analyze(cache, request.text, TRUE, elapsed, env), LAMBDA analysed :
        IF Raised(analysed.ret)
        THEN process_decoration_request(cache, themes, loaded, stats, request, elapsed,
                                        generation_time, env)
        ELSE
    With(override(analysed.ret, request.theme_preference), LAMBDA analysis_result :
    With(after_override(analysed.cache, request.text, analysis_result), LAMBDA overridden :
        IF phase = "theme"
        THEN With(failure_response(request, generation_time, <<>>, FailureText),
                  LAMBDA response :
                 [analysis_cache |-> overridden, theme_cache |-> themes,
                  loaded_themes |-> loaded, performance_stats |-> stats,
                  analysed |-> analysed.ret, raised |-> Raised(response),
                  ret |-> response])
        ELSE
    With(IF request.custom_colors # <<>>
         THEN [theme_cache |-> themes, loaded_themes |-> loaded,
               ret |-> _create_custom_theme(analysis_result.profile,
                                            request.custom_colors,
                                            request.effects_config,
                                            request.template_type)]
         ELSE generate_theme(themes, loaded, analysis_result.profile,
                             request.template_type), LAMBDA themed :
        IF Raised(themed.ret)
        THEN process_decoration_request(cache, themes, loaded, stats, request, elapsed,
                                        generation_time, env)
        ELSE With(failure_response(request, generation_time, <<themed.ret>>, FailureText),
                  LAMBDA response :
                 [analysis_cache |-> overridden,
                  theme_cache |-> themed.theme_cache,
                  loaded_themes |-> themed.loaded_themes,
                  performance_stats |-> stats,
                  analysed |-> analysed.ret, raised |-> Raised(response),
                  ret |-> response])))))

\* generate_theme_only(text, template_type, theme_preference): no handler
\* surrounds it, a failure of a step is raised to the caller
generate_theme_only(cache, themes, loaded, text, template_type, theme_preference, elapsed, env) ==
    With(analyze(cache, text, TRUE, elapsed, env), LAMBDA analysed :
        IF Raised(analysed.ret)
        THEN [analysis_cache |-> analysed.cache, theme_cache |-> themes,
              loaded_themes |-> loaded, analysed |-> analysed.ret,
              raised |-> TRUE, ret |-> analysed.ret]
        ELSE
    With(override(analysed.ret, theme_preference), LAMBDA analysis_result :
    With(after_override(analysed.cache, text, analysis_result), LAMBDA overridden :
    With(generate_theme(themes, loaded, analysis_result.profile, template_type), LAMBDA themed :
        IF Raised(themed.ret)
        THEN [analysis_cache |-> overridden, theme_cache |-> themes,
              loaded_themes |-> loaded, analysed |-> analysed.ret,
              raised |-> TRUE, ret |-> themed.ret]
        ELSE [analysis_cache |-> overridden,
              theme_cache |-> themed.theme_cache,
              loaded_themes |-> themed.loaded_themes,
              analysed |-> analysed.ret,
              raised |-> FALSE,
              ret |-> render_decoration(themed.ret, template_type)]))))

(***************************************************************************)
(* The operations as actions.                                              *)
(***************************************************************************)
\* the fields of an AnalysisResult other than processing_time and sentences
Compared(result) ==
    [profile |-> result.profile, word_count |-> result.word_count,
     character_count |-> result.character_count, keywords |-> result.keywords]

\* the history of returned results after analyze(text, use_cache) returned ret
Remember(hist, text, use_cache, ret) ==
    IF use_cache /\ ~Raised(ret)
    THEN [t \in DOMAIN hist \cup {text} |-> IF t = text THEN Compared(ret) ELSE hist[t]]
    ELSE hist

RECURSIVE RememberAll(_, _, _, _)
RememberAll(hist, texts, use_cache, rets) ==
    IF texts = <<>> \/ rets = <<>> THEN hist
    ELSE RememberAll(Remember(hist, Head(texts), use_cache, Head(rets)),
                     Tail(texts), use_cache, Tail(rets))

Analyze(text, use_cache, elapsed) ==
    \E r \in {analyze(analysis_cache, text, use_cache, elapsed, sentiment_env)} :
        /\ analysis_cache' = r.cache
        /\ requested' = IF use_cache THEN requested \cup {text} ELSE requested
        /\ returned' = Remember(returned, text, use_cache, r.ret)
        /\ call' = [op |-> "analyze", text |-> text, use_cache |-> use_cache,
                    hit |-> r.hit, ret |-> r.ret]
        /\ UNCHANGED <<sentiment_env, theme_cache, loaded_themes, performance_stats, input, threads>>

AnalyzeBatch(texts, use_cache, elapsed) ==
    \E r \in {analyze_batch(analysis_cache, texts, use_cache, elapsed, sentiment_env)} :
        /\ analysis_cache' = r.cache
        /\ requested' = IF use_cache THEN requested \cup SeqToSet(texts) ELSE requested
        /\ returned' = IF r.raised THEN returned
                       ELSE RememberAll(returned, texts, use_cache, r.ret)
        /\ call' = [op |-> "analyze_batch", texts |-> texts, use_cache |-> use_cache,
                    raised |-> r.raised, ret |-> r.ret]
        /\ UNCHANGED <<sentiment_env, theme_cache, loaded_themes, performance_stats, input, threads>>

ClearCache ==
    /\ analysis_cache' = EmptyCache
    /\ requested' = {}
    /\ returned' = EmptyCache
    /\ call' = [op |-> "clear_cache"]
    /\ UNCHANGED <<sentiment_env, theme_cache, loaded_themes, performance_stats, input, threads>>

GetCacheStats ==
    /\ call' = [op |-> "get_cache_stats", ret |-> get_cache_stats(analysis_cache)]
    /\ UNCHANGED <<sentiment_env, analysis_cache, theme_cache, loaded_themes,
                   performance_stats, requested, returned, input, threads>>

GenerateTheme(profile, template_type) ==
    \E r \in {generate_theme(theme_cache, loaded_themes, profile, template_type)} :
        /\ theme_cache' = r.theme_cache
        /\ loaded_themes' = r.loaded_themes
        /\ call' = [op |-> "generate_theme", profile |-> profile,
                    template_type |-> template_type, hit |-> r.hit, ret |-> r.ret]
        /\ UNCHANGED <<sentiment_env, analysis_cache, performance_stats, requested,
                       returned, input, threads>>

ProcessDecorationRequest(request, elapsed, generation_time) ==
    /\ performance_stats.total_requests < MaxRequests
    /\ \E r \in {process_decoration_request(analysis_cache, theme_cache, loaded_themes,
                                            performance_stats, request, elapsed,
                                            generation_time, sentiment_env)} :
           /\ analysis_cache' = r.analysis_cache
           /\ theme_cache' = r.theme_cache
           /\ loaded_themes' = r.loaded_themes
           /\ performance_stats' = r.performance_stats
           /\ requested' = requested \cup {request.text}
           /\ returned' = Remember(returned, request.text, TRUE, r.analysed)
           /\ call' = [op |-> "process_decoration_request", request |-> request,
                       raised |-> r.raised, ret |-> r.ret]
           /\ UNCHANGED <<sentiment_env, input, threads>>

GenerateThemeOnly(text, template_type, theme_preference, elapsed) ==
    \E r \in {generate_theme_only(analysis_cache, theme_cache, loaded_themes, text,
                                 template_type, theme_preference, elapsed, sentiment_env)} :
        /\ analysis_cache' = r.analysis_cache
        /\ theme_cache' = r.theme_cache
        /\ loaded_themes' = r.loaded_themes
        /\ requested' = requested \cup {text}
        /\ returned' = Remember(returned, text, TRUE, r.analysed)
        /\ call' = [op |-> "generate_theme_only", text |-> text,
                    template_type |-> template_type,
                    theme_preference |-> theme_preference,
                    raised |-> r.raised, ret |-> r.ret]
        /\ UNCHANGED <<sentiment_env, performance_stats, input, threads>>

\* DecorationEngine.clear_caches
ClearCaches ==
    /\ analysis_cache' = EmptyCache
    /\ theme_cache' = EmptyCache
    /\ requested' = {}
    /\ returned' = EmptyCache
    /\ call' = [op |-> "clear_caches"]
    /\ UNCHANGED <<sentiment_env, loaded_themes, performance_stats, input, threads>>

NewStats ==
    [total_requests |-> 0, total_processing_time |-> 0, average_chars_per_second |-> Zero]

\* the state after ContentAnalyzer(), ThemeGenerator() and DecorationEngine()
Constructed ==
    /\ analysis_cache = EmptyCache
    /\ theme_cache = EmptyCache
    /\ performance_stats = NewStats
    /\ requested = {}
    /\ returned = EmptyCache
    /\ call = [op |-> "init"]

(***************************************************************************)
(* ContentAnalyzer on its own.                                             *)
(***************************************************************************)
InitAnalyzer ==
    /\ sentiment_env \in MachineEnvs
    /\ loaded_themes = NoThemes
    /\ input = ""
    /\ threads = <<>>
    /\ Constructed

NextAnalyzer ==
    \/ \E text \in MachineTexts, use_cache \in BOOLEAN, elapsed \in Durations :
          Analyze(text, use_cache, elapsed)
    \/ \E texts \in SeqsUpTo(BatchTexts, MaxBatch), use_cache \in BOOLEAN,
          elapsed \in Durations :
          AnalyzeBatch(texts, use_cache, elapsed)
    \/ ClearCache
    \/ GetCacheStats

SpecAnalyzer == InitAnalyzer /\ [][NextAnalyzer]_vars

(***************************************************************************)
(* ThemeGenerator on its own, called with arbitrary profiles.              *)
(***************************************************************************)
InitTheme ==
    /\ sentiment_env = FallbackEnv
    /\ loaded_themes \in {NoThemes, StockThemes}
    /\ input = ""
    /\ threads = <<>>
    /\ Constructed

NextTheme ==
    \/ \E profile \in ThemeProfiles, template_type \in TemplateTypes :
          GenerateTheme(profile, template_type)
    \/ ClearCaches

SpecTheme == InitTheme /\ [][NextTheme]_vars

(***************************************************************************)
(* The predefined-theme lookup: ThemeLoader.find_themes_for_profile on any *)
(* emotion, content type and difficulty, and ThemeGenerator.generate_theme *)
(* over theme directories of several contents.                             *)
(***************************************************************************)
FindThemesForProfile(emotion, content_type, difficulty) ==
    /\ call' = [op |-> "find_themes_for_profile", emotion |-> emotion,
                content_type |-> content_type, difficulty |-> difficulty,
                ret |-> find_themes_for_profile(loaded_themes, emotion, content_type,
                                                difficulty)]
    /\ UNCHANGED <<sentiment_env, analysis_cache, theme_cache, loaded_themes,
                   performance_stats, requested, returned, input, threads>>

InitLookup ==
    /\ sentiment_env = FallbackEnv
    /\ loaded_themes \in LoadedThemeSets
    /\ input = ""
    /\ threads = <<>>
    /\ Constructed

NextLookup ==
    \/ \E emotion \in SeqToSet(EmotionType), content_type \in SeqToSet(ContentType),
          difficulty \in SeqToSet(DifficultyLevel) :
          FindThemesForProfile(emotion, content_type, difficulty)
    \/ \E profile \in LookupProfiles, template_type \in {"scroll"} :
          GenerateTheme(profile, template_type)
    \/ ClearCaches

SpecLookup == InitLookup /\ [][NextLookup]_vars

(***************************************************************************)
(* The engine with its analyzer and theme generator.                       *)
(***************************************************************************)
RequestStyles ==
    {[custom_colors |-> <<>>, effects_config |-> <<>>],
     [custom_colors |-> <<CustomColors>>, effects_config |-> <<CustomEffects>>]}

Requests ==
    { [text |-> text, template_type |-> template_type,
       theme_preference |-> theme_preference,
       custom_colors |-> style.custom_colors, effects_config |-> style.effects_config] :
        text \in EngineTexts, template_type \in EngineTemplates,
        theme_preference \in ThemePreferences, style \in RequestStyles }

Init ==
    /\ sentiment_env = FallbackEnv
    /\ loaded_themes \in {NoThemes, ProfessionalThemes}
    /\ input = ""
    /\ threads = <<>>
    /\ Constructed

Next ==
    \/ \E text \in EngineTexts, use_cache \in BOOLEAN, elapsed \in Durations :
          Analyze(text, use_cache, elapsed)
    \/ ClearCache
    \/ \E request \in Requests, elapsed \in Durations :
          ProcessDecorationRequest(request, elapsed, elapsed)
    \/ \E text \in EngineTexts, template_type \in EngineTemplates,
          theme_preference \in ThemePreferences, elapsed \in Durations :
          GenerateThemeOnly(text, template_type, theme_preference, elapsed)
    \/ ClearCaches

Spec == Init /\ [][Next]_vars

(***************************************************************************)
(* The engine when a phase of a request fails.                             *)
(***************************************************************************)
ProcessDecorationRequestFailing(request, elapsed, generation_time, phase) ==
    \E r \in {process_decoration_request_failing(analysis_cache, theme_cache,
                                                 loaded_themes, performance_stats,
                                                 request, elapsed, generation_time,
                                                 sentiment_env, phase)} :
        /\ analysis_cache' = r.analysis_cache
        /\ theme_cache' = r.theme_cache
        /\ loaded_themes' = r.loaded_themes
        /\ performance_stats' = r.performance_stats
        /\ requested' = requested \cup {request.text}
        /\ returned' = Remember(returned, request.text, TRUE, r.analysed)
        /\ call' = [op |-> "process_decoration_request", request |-> request,
                    failed |-> phase, raised |-> r.raised, ret |-> r.ret]
        /\ UNCHANGED <<sentiment_env, input, threads>>

\* the time each request takes in the runs with failing phases
FailingDurations == {1}

NextFailing ==
    \/ \E request \in Requests, elapsed \in FailingDurations :
          ProcessDecorationRequest(request, elapsed, elapsed)
    \/ \E request \in Requests, elapsed \in FailingDurations, phase \in Phases :
          ProcessDecorationRequestFailing(request, elapsed, elapsed, phase)
    \/ ClearCaches

SpecFailing == Init /\ [][NextFailing]_vars

(***************************************************************************)
(* The functions of the analysis applied to a text: each behaviour draws a *)
(* text and a sentiment environment and applies one function to it.        *)
(***************************************************************************)
PureEnvs ==
    {FallbackEnv, RaisingEnv,
     [mode |-> "textblob", polarity |-> One, subjectivity |-> One],
     [mode |-> "textblob", polarity |-> Frac(-1, 2), subjectivity |-> Zero]}

DetectEmotion ==
    /\ call.op = "init"
    /\ call' = [op |-> "detect_emotion", ret |-> detect_emotion(input, sentiment_env)]
    /\ UNCHANGED <<sentiment_env, analysis_cache, theme_cache, loaded_themes,
                   performance_stats, requested, returned, input, threads>>

GetEmotionDistribution ==
    /\ call.op = "init"
    /\ call' = [op |-> "get_emotion_distribution", ret |-> get_emotion_distribution(input)]
    /\ UNCHANGED <<sentiment_env, analysis_cache, theme_cache, loaded_themes,
                   performance_stats, requested, returned, input, threads>>

ClassifyContent ==
    /\ call.op = "init"
    /\ call' = [op |-> "classify_content", ret |-> classify_content(input)]
    /\ UNCHANGED <<sentiment_env, analysis_cache, theme_cache, loaded_themes,
                   performance_stats, requested, returned, input, threads>>

GetContentDistribution ==
    /\ call.op = "init"
    /\ call' = [op |-> "get_content_distribution", ret |-> get_content_distribution(input)]
    /\ UNCHANGED <<sentiment_env, analysis_cache, theme_cache, loaded_themes,
                   performance_stats, requested, returned, input, threads>>

ApplyIntensityModifiers ==
    /\ call.op = "init"
    /\ \E words \in {split(lower(_clean_text(input)))} :
          call' = [op |-> "_apply_intensity_modifiers", words |-> words,
                   emotion_scores |-> _calculate_emotion_scores(words),
                   ret |-> _apply_intensity_modifiers(_calculate_emotion_scores(words), words)]
    /\ UNCHANGED <<sentiment_env, analysis_cache, theme_cache, loaded_themes,
                   performance_stats, requested, returned, input, threads>>

AnalyzeInput ==
    /\ call.op = "init"
    /\ Analyze(input, TRUE, 0)

\* texts with an intensity modifier before, between and far from emotion
\* keywords
ModifierTexts ==
    {"happy very happy", "very learn code fun happy", "very happy sad",
     "slightly sad happy happy", "happy sad sad very learn"}

\* texts that carry the structural signals of _analyze_structure: a code
\* span, a numbered list, an exclamation, a question, a quotation, a URL
StructuredTexts ==
    {"learn code " \o Backtick \o "x" \o Backtick, "1. learn code", "fun code!",
     "learn? fun", "'story' code", "learn code http://x", "#fun code"}

InitPure ==
    /\ sentiment_env \in PureEnvs
    /\ loaded_themes = NoThemes
    /\ input \in PureTexts \cup StructuredTexts \cup ModifierTexts
    /\ threads = <<>>
    /\ Constructed

NextPure ==
    \/ DetectEmotion
    \/ GetEmotionDistribution
    \/ ClassifyContent
    \/ GetContentDistribution
    \/ ApplyIntensityModifiers
    \/ AnalyzeInput

SpecPure == InitPure /\ [][NextPure]_vars

(***************************************************************************)
(* The functions of the theme generator and the recommended-theme decision *)
(* applied to a profile: each behaviour draws a profile and a template     *)
(* type, or two colours, and applies one function to them.                 *)
(***************************************************************************)
\* emotion intensities on, just above and away from the thresholds the
\* effect presets are chosen by
Intensities ==
    {Zero, Frac(3, 10), Frac(31, 100), Frac(6, 10), Frac(64, 100), Frac(8, 10),
     Frac(81, 100), One}

\* recommended_theme strings: two palette keys and two strings that are not
RecommendedThemes == {"professional_minimal", "emotional_vibrant", "custom", ""}

ProfileInputs ==
    { [profile |-> Profile(emotion, content_type, difficulty, emotion_intensity,
                           recommended_theme),
       template_type |-> template_type] :
        emotion \in SeqToSet(EmotionType), content_type \in SeqToSet(ContentType),
        difficulty \in SeqToSet(DifficultyLevel), emotion_intensity \in Intensities,
        recommended_theme \in RecommendedThemes, template_type \in TemplateTypes }

\* every colour of the palette table and of the emotion table
PaletteColors ==
    { base_color_palettes[key][field] :
        key \in DOMAIN base_color_palettes, field \in ColorFields }
    \cup { emotion_colors[key][field] : key \in DOMAIN emotion_colors, field \in ColorFields }

BlendInputs == { [color1 |-> a, color2 |-> b] : a \in PaletteColors, b \in PaletteColors }

GenerateColorScheme ==
    /\ call.op = "init"
    /\ "profile" \in DOMAIN input
    /\ call' = [op |-> "generate_color_scheme", ret |-> generate_color_scheme(input.profile)]
    /\ UNCHANGED <<sentiment_env, analysis_cache, theme_cache, loaded_themes,
                   performance_stats, requested, returned, input, threads>>

GenerateVisualEffects ==
    /\ call.op = "init"
    /\ "profile" \in DOMAIN input
    /\ call' = [op |-> "generate_visual_effects",
                ret |-> generate_visual_effects(input.profile, input.template_type)]
    /\ UNCHANGED <<sentiment_env, analysis_cache, theme_cache, loaded_themes,
                   performance_stats, requested, returned, input, threads>>

DetermineRecommendedTheme ==
    /\ call.op = "init"
    /\ "profile" \in DOMAIN input
    /\ call' = [op |-> "_determine_recommended_theme",
                ret |-> _determine_recommended_theme(input.profile.emotion,
                                                     input.profile.content_type,
                                                     input.profile.difficulty)]
    /\ UNCHANGED <<sentiment_env, analysis_cache, theme_cache, loaded_themes,
                   performance_stats, requested, returned, input, threads>>

BlendHexColors ==
    /\ call.op = "init"
    /\ "color1" \in DOMAIN input
    /\ call' = [op |-> "_blend_hex_colors",
                ret |-> _blend_hex_colors(input.color1, input.color2, Frac(1, 2))]
    /\ UNCHANGED <<sentiment_env, analysis_cache, theme_cache, loaded_themes,
                   performance_stats, requested, returned, input, threads>>

\* composite scores on, just beside and away from the thresholds
DifficultyScores ==
    {Frac(-175, 100), Frac(-31, 100), Frac(-3, 10), Frac(-29, 100), Zero, Frac(9, 100),
     Frac(1, 10), Frac(11, 100), Frac(39, 100), Frac(4, 10), Frac(41, 100), Frac(18, 10)}

\* texts without words, of short and of long words, of one and more sentences
DifficultyTexts ==
    {"", " ", "...", "go on", "sad. learn ", "happy", "happyhappy",
     "learn code learn code. learn code"}

ScoreInputs == { [difficulty_score |-> score] : score \in DifficultyScores }

\* texts with stop words, short words, repeated words and ties, and one
\* with more than 20 distinct words
KeywordTexts ==
    {"the cat sat on a mat. The Mat, the cat; the dog: mat",
     "aaa bbb ccc ddd eee fff ggg hhh iii jjj kkk lll mmm nnn ooo ppp qqq rrr sss ttt uuu vvv uuu vvv"}

\* texts of several content types and several emotions
ThemeTexts ==
    {"learn fun calm", "team code design calm rage fear shocked", "happy sad", "learn learn learn learn fun"}

TextInputs == { [text |-> text] : text \in DifficultyTexts \cup ThemeTexts }

DocumentInputs == { [document |-> text] : text \in KeywordTexts \cup ThemeTexts }

ExtractKeyThemes ==
    /\ call.op = "init"
    /\ "text" \in DOMAIN input
    /\ call' = [op |-> "_extract_key_themes",
                content_dist |-> get_content_distribution(input.text),
                emotion_dist |-> get_emotion_distribution(input.text),
                ret |-> _extract_key_themes(input.text)]
    /\ UNCHANGED <<sentiment_env, analysis_cache, theme_cache, loaded_themes,
                   performance_stats, requested, returned, input, threads>>

ExtractKeywords ==
    /\ call.op = "init"
    /\ "document" \in DOMAIN input
    /\ call' = [op |-> "_extract_keywords", ret |-> _extract_keywords(input.document)]
    /\ UNCHANGED <<sentiment_env, analysis_cache, theme_cache, loaded_themes,
                   performance_stats, requested, returned, input, threads>>

DifficultyLevelOf ==
    /\ call.op = "init"
    /\ "difficulty_score" \in DOMAIN input
    /\ call' = [op |-> "difficulty_level", ret |-> difficulty_level(input.difficulty_score)]
    /\ UNCHANGED <<sentiment_env, analysis_cache, theme_cache, loaded_themes,
                   performance_stats, requested, returned, input, threads>>

AssessDifficulty ==
    /\ call.op = "init"
    /\ "text" \in DOMAIN input
    /\ call' = [op |-> "_assess_difficulty",
                complexity_metrics |-> analyze_complexity(input.text),
                ret |-> _assess_difficulty(input.text)]
    /\ UNCHANGED <<sentiment_env, analysis_cache, theme_cache, loaded_themes,
                   performance_stats, requested, returned, input, threads>>

InitProfile ==
    /\ sentiment_env = FallbackEnv
    /\ loaded_themes = NoThemes
    /\ input \in ProfileInputs \cup BlendInputs \cup ScoreInputs \cup TextInputs
                \cup DocumentInputs
    /\ threads = <<>>
    /\ Constructed

NextProfile ==
    \/ GenerateColorScheme
    \/ GenerateVisualEffects
    \/ DetermineRecommendedTheme
    \/ BlendHexColors
    \/ DifficultyLevelOf
    \/ AssessDifficulty
    \/ ExtractKeyThemes
    \/ ExtractKeywords

SpecProfile == InitProfile /\ [][NextProfile]_vars

(***************************************************************************)
(* Concurrent analyze(text, use_cache=True) calls on one analyzer.  A call *)
(* is three steps, each atomic: the test of line 37, then either the hit   *)
(* of lines 38-42 or the computation of lines 44-95 followed by the store  *)
(* of lines 98-99.  The steps of different calls interleave freely.        *)
(***************************************************************************)
\* most calls in progress at once
MaxThreads == 2

\* the texts the concurrent calls are given
RaceTexts == {"happy", "happy "}

\* a call that has been made and has not run yet
NewThread(text) == [text |-> text, pc |-> "check", result |-> <<>>, ret |-> <<>>]

\* the store of the racing analyses keyed by the stripped text
analysis_cache_store_stripped(cache, text, result) == Store(cache, strip(text), result)

\* line 99: self.analysis_cache[text] = result
analysis_cache_store(cache, text, result) == Store(cache, text, result)

\* line 37: use_cache and text in self.analysis_cache
ThreadCheck(i) ==
    /\ threads[i].pc = "check"
    /\ threads' = [threads EXCEPT
                     ![i].pc = IF threads[i].text \in DOMAIN analysis_cache
                               THEN "hit" ELSE "compute"]
    /\ call' = [op |-> "thread_check", thread |-> i]
    /\ UNCHANGED <<sentiment_env, analysis_cache, theme_cache, loaded_themes,
                   performance_stats, requested, returned, input>>

\* lines 38-42: the stored object, its processing_time refreshed, is returned
ThreadHit(i, elapsed) ==
    /\ threads[i].pc = "hit"
    /\ threads[i].text \in DOMAIN analysis_cache
    /\ \E hit \in {cached_result(analysis_cache, threads[i].text, elapsed)} :
          /\ analysis_cache' = [analysis_cache EXCEPT ![threads[i].text] = hit]
          /\ threads' = [threads EXCEPT ![i].pc = "done", ![i].ret = <<hit>>]
    /\ call' = [op |-> "thread_hit", thread |-> i]
    /\ UNCHANGED <<sentiment_env, theme_cache, loaded_themes, performance_stats,
                   requested, returned, input>>

\* lines 44-95: the analysis itself; a failing validation ends the call
ThreadCompute(i, elapsed) ==
    /\ threads[i].pc = "compute"
    /\ \E result \in {fresh_result(threads[i].text, elapsed, sentiment_env)} :
          threads' = [threads EXCEPT
                        ![i].pc = IF Raised(result) THEN "done" ELSE "store",
                        ![i].result = IF Raised(result) THEN <<>> ELSE <<result>>,
                        ![i].ret = IF Raised(result) THEN <<result>> ELSE <<>>]
    /\ call' = [op |-> "thread_compute", thread |-> i]
    /\ UNCHANGED <<sentiment_env, analysis_cache, theme_cache, loaded_themes,
                   performance_stats, requested, returned, input>>

\* lines 98-101: the result is stored and returned
ThreadStore(i) ==
    /\ threads[i].pc = "store"
    /\ analysis_cache' =
           analysis_cache_store(analysis_cache, threads[i].text, threads[i].result[1])
    /\ threads' = [threads EXCEPT ![i].pc = "done", ![i].ret = threads[i].result]
    /\ call' = [op |-> "thread_store", thread |-> i]
    /\ UNCHANGED <<sentiment_env, theme_cache, loaded_themes, performance_stats,
                   requested, returned, input>>

InitRace ==
    /\ sentiment_env \in MachineEnvs
    /\ loaded_themes = NoThemes
    /\ input = ""
    /\ threads \in [1..MaxThreads -> { NewThread(text) : text \in RaceTexts }]
    /\ Constructed

NextRace ==
    \E i \in 1..MaxThreads :
        \/ ThreadCheck(i)
        \/ \E elapsed \in Durations : ThreadHit(i, elapsed)
        \/ \E elapsed \in Durations : ThreadCompute(i, elapsed)
        \/ ThreadStore(i)

SpecRace == InitRace /\ [][NextRace]_vars

(***************************************************************************)
(* Properties.                                                             *)
(***************************************************************************)
\* two AnalysisResults that differ at most in processing_time
SameButTime(a, b) ==
    [a EXCEPT !.processing_time = 0] = [b EXCEPT !.processing_time = 0]

\* ret holds what an uncached analysis of text computes
FreshlyComputed(ret, text, env) ==
    With(Computed(text, env), LAMBDA computed :
        /\ ~Raised(ret)
        /\ ~Raised(computed)
        /\ ret.text = text
        /\ ret.profile = computed.profile
        /\ ret.word_count = computed.word_count
        /\ ret.character_count = computed.character_count
        /\ ret.sentences = computed.sentences
        /\ ret.keywords = computed.keywords)

\* the empty string, or whitespace characters only
IsBlank(text) == \A i \in 1..Len(text) : CharAt(text, i) \in SpaceCharSet

NoDuplicates(list) ==
    \A i \in 1..Len(list) : \A j \in 1..Len(list) : list[i] = list[j] => i = j

InUnitInterval(x) == RLe(Zero, x) /\ RLe(x, One)

\* C1: every analysis-cache entry stored under key t has text t and the
\* profile an uncached analysis of t computes, whatever analyzer and engine
\* operations came before.
C1_CacheHoldsUncachedProfiles ==
    \A t \in DOMAIN analysis_cache :
        /\ analysis_cache[t].text = t
        /\ analysis_cache[t].profile = Computed(t, sentiment_env).profile

\* C2: an analyze(text) with caching enabled returns the same profile,
\* word_count, character_count and keywords as the previous such call for
\* that text since the last clear_cache.
C2_AnalyzeIsIdempotent ==
    [][(/\ call'.op = "analyze"
        /\ call'.use_cache
        /\ call'.text \in DOMAIN returned
        /\ ~Raised(call'.ret))
          => Compared(call'.ret) = returned[call'.text]]_vars

\* C3: analyze_batch returns without raising a list as long as its input
\* whose i-th result is the analysis of the i-th text.
C3_BatchPreservesOrder ==
    call.op = "analyze_batch" =>
        /\ ~call.raised
        /\ Len(call.ret) = Len(call.texts)
        /\ \A i \in 1..Len(call.texts) : call.ret[i].text = call.texts[i]

C3_DuplicatesInBatch ==
    /\ call.op = "analyze_batch"
    /\ ~call.raised
    /\ Len(call.texts) = 2
    /\ call.texts[1] = ""
    /\ call.texts[2] = ""
    /\ "happy" \in DOMAIN analysis_cache

\* C4: an analyze(text, use_cache=True) that finds text in the cache is a
\* hit; it returns the stored result, keeps the set of keys, and changes no
\* field of any cached result but the processing_time of the entry it hit.
C4_HitChangesOnlyProcessingTime ==
    [][(/\ call'.op = "analyze"
        /\ call'.use_cache
        /\ call'.text \in DOMAIN analysis_cache)
          => /\ call'.hit
             /\ DOMAIN analysis_cache' = DOMAIN analysis_cache
             /\ \A t \in DOMAIN analysis_cache :
                   IF t = call'.text
                   THEN SameButTime(analysis_cache'[t], analysis_cache[t])
                   ELSE analysis_cache'[t] = analysis_cache[t]
             /\ call'.ret = analysis_cache'[call'.text]
             /\ SameButTime(call'.ret, analysis_cache[call'.text])]_vars

C4_HitAmongOtherEntries ==
    /\ call.op = "analyze"
    /\ call.hit
    /\ call.ret.processing_time = 1
    /\ call.ret.sentences # <<>>
    /\ \E t \in DOMAIN analysis_cache : t # call.text

\* C5: get_cache_stats reports the number and the total length of the
\* distinct texts requested with caching since construction or the last
\* clear_cache, both 0 right after clear_cache, and no step other than
\* clear_cache removes an entry.
C5_CacheAccounting ==
    /\ [](/\ get_cache_stats(analysis_cache).cache_size = Cardinality(requested)
          /\ get_cache_stats(analysis_cache).total_cached_chars = SumLenOfSet(requested)
          /\ DOMAIN analysis_cache = requested
          /\ call.op = "get_cache_stats" =>
                call.ret = [cache_size |-> Cardinality(requested),
                            total_cached_chars |-> SumLenOfSet(requested)]
          /\ call.op = "clear_cache" =>
                get_cache_stats(analysis_cache) =
                    [cache_size |-> 0, total_cached_chars |-> 0])
    /\ [][call'.op # "clear_cache" =>
             DOMAIN analysis_cache \subseteq DOMAIN analysis_cache']_vars

C5_CaseAndSpaceCountSeparately ==
    /\ call.op = "get_cache_stats"
    /\ call.ret.cache_size = 3
    /\ {"happy", "Happy", "happy "} \subseteq requested

\* C6: analyze(text, use_cache=False) leaves the analysis cache as it was
\* and returns what an uncached analysis computes, even when text is cached.
C6_UncachedAnalyzeBypassesCache ==
    [][(call'.op = "analyze" /\ ~call'.use_cache)
          => /\ analysis_cache' = analysis_cache
             /\ ~call'.hit
             /\ FreshlyComputed(call'.ret, call'.text, sentiment_env)]_vars

C6_BypassOfAChangedEntry ==
    /\ call.op = "analyze"
    /\ ~call.use_cache
    /\ call.text \in DOMAIN analysis_cache
    /\ analysis_cache[call.text].profile.recommended_theme = "custom"
    /\ call.ret.profile.recommended_theme # "custom"
    /\ call.ret.processing_time # analysis_cache[call.text].processing_time

\* C7: for an empty or whitespace-only text detect_emotion returns
\* (neutral, 0), get_emotion_distribution is 0 for every emotion,
\* classify_content returns (professional, 0), and analyze returns, without
\* raising, word_count 0, character_count the text length, emotion neutral,
\* content type professional, intensity 0 and confidence 0.
C7_BlankInputDefaults ==
    IsBlank(input) =>
        /\ call.op = "detect_emotion" => call.ret = <<"neutral", Zero>>
        /\ call.op = "get_emotion_distribution" =>
              \A e \in SeqToSet(EmotionType) : e \in DOMAIN call.ret /\ call.ret[e] = Zero
        /\ call.op = "classify_content" => call.ret = <<"professional", Zero>>
        /\ call.op = "analyze" =>
              /\ ~Raised(call.ret)
              /\ call.ret.word_count = 0
              /\ call.ret.character_count = Len(input)
              /\ call.ret.profile.emotion = "neutral"
              /\ call.ret.profile.content_type = "professional"
              /\ call.ret.profile.emotion_intensity = Zero
              /\ call.ret.profile.confidence = Zero

C7_WhitespaceAnalysed ==
    /\ IsBlank(input)
    /\ Len(input) = 2
    /\ call.op = "analyze"
    /\ call.ret.character_count = 2

\* C8: analyze never fails the range validation of ContentProfile: the
\* profile it returns has emotion_intensity and confidence in [0,1] and
\* reading_speed above 0.
C8_ProfileWithinRanges ==
    call.op = "analyze" =>
        /\ ~Raised(call.ret)
        /\ InUnitInterval(call.ret.profile.emotion_intensity)
        /\ InUnitInterval(call.ret.profile.confidence)
        /\ RGt(call.ret.profile.reading_speed, Zero)

C8_IntensityAtItsCap ==
    /\ call.op = "analyze"
    /\ ~Raised(call.ret)
    /\ call.ret.profile.emotion_intensity = One
    /\ RGt(FinalEmotionScores(input, sentiment_env)[call.ret.profile.emotion],
           R(Len(split(lower(_clean_text(input))))))

\* C9: the emotion distribution and the content-type distribution each sum
\* to 1 or are 0 for every member, every value is in [0,1], and the emotion
\* distribution has a key for every EmotionType.
C9_DistributionsNormalised ==
    /\ call.op = "get_emotion_distribution" =>
          /\ DOMAIN call.ret = SeqToSet(EmotionType)
          /\ \A e \in DOMAIN call.ret : InUnitInterval(call.ret[e])
          /\ \/ SumOver(call.ret, EmotionType, 1) = One
             \/ \A e \in DOMAIN call.ret : call.ret[e] = Zero
    /\ call.op = "get_content_distribution" =>
          /\ DOMAIN call.ret \subseteq SeqToSet(ContentType)
          /\ \A ct \in DOMAIN call.ret : InUnitInterval(call.ret[ct])
          /\ \/ SumOver(call.ret, ContentType, 1) = One
             \/ \A ct \in DOMAIN call.ret : call.ret[ct] = Zero

C9_TwoEmotionsShareTheTotal ==
    /\ call.op = "get_emotion_distribution"
    /\ Cardinality({e \in DOMAIN call.ret : call.ret[e] # Zero}) = 2
    /\ call.ret["neutral"] = Zero

\* C10: the config generate_theme(profile, t) returns lists t in its
\* compatibility, and lists no template type twice.
C10_TemplateTypeListedOnce ==
    call.op = "generate_theme" =>
        /\ ~Raised(call.ret)
        /\ InList(call.template_type, call.ret.compatibility)
        /\ NoDuplicates(call.ret.compatibility)

C10_HitOnAThemeOfEveryTemplate ==
    /\ call.op = "generate_theme"
    /\ call.hit
    /\ ~Raised(call.ret)
    /\ Len(call.ret.compatibility) = 3

(***************************************************************************)
(* Properties of the theme generator, of racing analyses, of the engine's  *)
(* theme preference and of the decisions of the analysis.                  *)
(***************************************************************************)
\* a ThemeConfig with every field, its colours and effects valid
CompleteTheme(theme) ==
    /\ DOMAIN theme = {"name", "description", "colors", "effects", "typography",
                       "compatibility"}
    /\ ColorSchemeValid(theme.colors)
    /\ VisualEffectValid(theme.effects)

\* the colours of the profile's emotion, blended half and half with the
\* palette of the content type for learning and professional content
SynthesizedColors(profile) ==
    IF profile.content_type = "learning"
    THEN _blend_colors(emotion_colors[profile.emotion],
                       base_color_palettes["learning_focused"], Frac(1, 2))
    ELSE IF profile.content_type = "professional"
    THEN _blend_colors(emotion_colors[profile.emotion],
                       base_color_palettes["professional_minimal"], Frac(1, 2))
    ELSE emotion_colors[profile.emotion]

\* C11: generate_color_scheme returns, for every profile, six colours that
\* each match #RRGGBB; each channel of a 50/50 blend of two palette colours
\* is floor((a+b)/2), lies between the two channels and stays in 0..255.
C11_ColorSchemesAreHex ==
    /\ call.op = "generate_color_scheme" =>
          /\ ~Raised(call.ret)
          /\ DOMAIN call.ret = ColorFields
          /\ \A field \in ColorFields : HexColorValid(call.ret[field])
    /\ call.op = "_blend_hex_colors" =>
          /\ HexColorValid(call.ret)
          /\ \A i \in 1..3 :
                LET a == hex_to_rgb(input.color1)[i]
                    b == hex_to_rgb(input.color2)[i]
                    c == hex_to_rgb(call.ret)[i]
                IN  /\ c = (a + b) \div 2
                    /\ Min(a, b) <= c
                    /\ c <= Max(a, b)
                    /\ c \in 0..255

C11_BlendedSchemeOfAnUnknownTheme ==
    /\ call.op = "generate_color_scheme"
    /\ input.profile.recommended_theme = "custom"
    /\ input.profile.emotion = "happy"
    /\ input.profile.content_type = "learning"
    /\ call.ret.primary_start = "#a4b48f"

\* C12 as stated: for a profile whose recommended_theme is no key of the
\* palette table, generate_theme returns a complete ThemeConfig whose
\* colours are synthesized from the profile's emotion.
C12_UnknownThemeIsSynthesized ==
    (/\ call.op = "generate_theme"
     /\ call.profile.recommended_theme \notin DOMAIN base_color_palettes)
       => /\ ~Raised(call.ret)
          /\ CompleteTheme(call.ret)
          /\ call.ret.colors = SynthesizedColors(call.profile)

\* C12: for a profile whose recommended_theme is no key of the palette
\* table, generate_theme returns a complete ThemeConfig, and one whose
\* colours are synthesized from the profile's emotion when the call neither
\* hits the theme cache nor finds a predefined theme for the profile.
C12_UnknownThemeIsSynthesizedWhenGenerated ==
    (/\ call.op = "generate_theme"
     /\ call.profile.recommended_theme \notin DOMAIN base_color_palettes)
       => /\ ~Raised(call.ret)
          /\ CompleteTheme(call.ret)
          /\ (~call.hit /\ _get_predefined_theme(loaded_themes, call.profile) = None)
                => call.ret.colors = SynthesizedColors(call.profile)

C12_UnknownThemeGenerated ==
    /\ call.op = "generate_theme"
    /\ call.profile.recommended_theme = "custom"
    /\ ~call.hit
    /\ loaded_themes = NoThemes
    /\ call.ret.colors.primary_start = "#97873f"

\* C13: under every interleaving of concurrent analyze(text, use_cache=True)
\* calls the cache holds, once all have returned, exactly one entry per
\* distinct text, every entry has the sequentially computed profile, and
\* every caller has a result with the profile, word_count, character_count
\* and keywords of a sequential call.
C13_RacingAnalysesAreSafe ==
    /\ \A t \in DOMAIN analysis_cache :
          /\ analysis_cache[t].text = t
          /\ analysis_cache[t].profile = Computed(t, sentiment_env).profile
    /\ \A i \in DOMAIN threads :
          threads[i].pc = "done" =>
              /\ ~Raised(threads[i].ret[1])
              /\ Compared(threads[i].ret[1])
                    = Compared(Computed(threads[i].text, sentiment_env))
    /\ (\A i \in DOMAIN threads : threads[i].pc = "done") =>
          DOMAIN analysis_cache = { threads[i].text : i \in DOMAIN threads }

C13_BothComputedTheSameText ==
    /\ threads # <<>>
    /\ \A i \in DOMAIN threads : threads[i].pc = "done" /\ threads[i].text = "happy "
    /\ threads[1].ret[1].processing_time # threads[2].ret[1].processing_time
    /\ call.op = "thread_store"

\* C14: for every profile and template type the synthesized effects have
\* 0 <= glow_intensity <= 1, animation_speed > 0, blur_radius >= 0,
\* 0 <= gradient_angle <= 360 and 0 <= shadow_intensity <= 1, and building
\* the VisualEffect does not fail.
C14_EffectsWithinRanges ==
    call.op = "generate_visual_effects" =>
        /\ ~Raised(call.ret)
        /\ RLe(Zero, call.ret.glow_intensity) /\ RLe(call.ret.glow_intensity, One)
        /\ RGt(call.ret.animation_speed, Zero)
        /\ RLe(Zero, call.ret.blur_radius)
        /\ call.ret.gradient_angle \in 0..360
        /\ RLe(Zero, call.ret.shadow_intensity) /\ RLe(call.ret.shadow_intensity, One)

C14_BrightestFastestEffects ==
    /\ call.op = "generate_visual_effects"
    /\ input.profile.content_type = "entertainment"
    /\ input.profile.emotion_intensity = One
    /\ input.template_type = "scroll"
    /\ call.ret.glow_intensity = Frac(88, 100)
    /\ call.ret.animation_speed = Frac(144, 100)

\* C15: on a cache hit generate_theme returns a config equal to the one it
\* builds for the given profile and template type with an empty cache.
C15_ThemeCacheIsTransparent ==
    (call.op = "generate_theme" /\ call.hit) =>
        call.ret = generate_theme(EmptyCache, loaded_themes, call.profile,
                                  call.template_type).ret

\* C16: the analysis in the response to a request has recommended_theme
\* equal to the request's theme_preference when it gave one and to the
\* analyzer's own recommendation for its text when it gave none, whatever
\* requests came before.
C16_RequestsKeepTheirOwnPreference ==
    (call.op = "process_decoration_request" /\ ~call.raised) =>
        call.ret.analysis.profile.recommended_theme =
            IF Truthy(call.request.theme_preference)
            THEN call.request.theme_preference
            ELSE Computed(call.request.text, sentiment_env).profile.recommended_theme

\* the base of a recommended theme: learning and professional content have
\* their own, narrative and creative content the emotional one
BaseThemeOf(content_type) ==
    IF content_type = "learning" THEN "learning"
    ELSE IF content_type \in {"narrative", "creative"} THEN "emotional"
    ELSE "professional"

EndsWith(s, suffix) ==
    Len(s) >= Len(suffix) /\ SubSeq(s, Len(s) - Len(suffix) + 1, Len(s)) = suffix

EmotionSuffixes ==
    {"_energetic", "_positive", "_vibrant", "_focused", "_minimal", "_serene",
     "_supportive", "_subtle", "_contemplative"}

DifficultySuffixes == {"_sophisticated", "_accessible"}

HasSuffixOf(s, suffixes) == \E suffix \in suffixes : EndsWith(s, suffix)

\* C17 as stated: the difficulty decides last and wins: an expert profile
\* is recommended <base>_sophisticated and an easy one <base>_accessible
\* whatever the emotion, the emotion suffix is kept only for medium and hard,
\* and no recommendation carries both suffixes.
C17_DifficultyDecidesLast ==
    call.op = "_determine_recommended_theme" =>
        /\ input.profile.difficulty = "expert" =>
              call.ret = BaseThemeOf(input.profile.content_type) \o "_sophisticated"
        /\ input.profile.difficulty = "easy" =>
              call.ret = BaseThemeOf(input.profile.content_type) \o "_accessible"
        /\ HasSuffixOf(call.ret, EmotionSuffixes) =>
              input.profile.difficulty \in {"medium", "hard"}
        /\ ~(HasSuffixOf(call.ret, EmotionSuffixes)
               /\ HasSuffixOf(call.ret, DifficultySuffixes))

\* C17: the emotion decides first: for an excited, happy, calm, neutral, sad
\* or fearful profile the recommendation carries the emotion's suffix
\* whatever the difficulty; only for an angry or a surprised one does the
\* difficulty decide, expert giving <base>_sophisticated, easy
\* <base>_accessible, medium and hard the bare base; no recommendation
\* carries both suffixes.
C17_EmotionDecidesFirst ==
    call.op = "_determine_recommended_theme" =>
        /\ input.profile.emotion \notin {"angry", "surprised"} =>
              /\ HasSuffixOf(call.ret, EmotionSuffixes)
              /\ \A difficulty \in SeqToSet(DifficultyLevel) :
                    call.ret = _determine_recommended_theme(
                                   input.profile.emotion, input.profile.content_type,
                                   difficulty)
        /\ input.profile.emotion \in {"angry", "surprised"} =>
              call.ret = BaseThemeOf(input.profile.content_type) \o
                             (IF input.profile.difficulty = "expert" THEN "_sophisticated"
                              ELSE IF input.profile.difficulty = "easy" THEN "_accessible"
                              ELSE "")
        /\ ~(HasSuffixOf(call.ret, EmotionSuffixes)
               /\ HasSuffixOf(call.ret, DifficultySuffixes))

C17_HappyExpertKeepsItsEmotion ==
    /\ call.op = "_determine_recommended_theme"
    /\ input.profile.emotion = "happy"
    /\ input.profile.content_type = "learning"
    /\ input.profile.difficulty = "expert"
    /\ call.ret = "learning_energetic"

\* the suffix each base takes for each group of emotions
EmotionSuffixOf(base, emotion) ==
    IF emotion \in {"excited", "happy"}
    THEN (IF base = "learning" THEN "_energetic"
          ELSE IF base = "professional" THEN "_positive" ELSE "_vibrant")
    ELSE IF emotion \in {"calm", "neutral"}
    THEN (IF base = "learning" THEN "_focused"
          ELSE IF base = "professional" THEN "_minimal" ELSE "_serene")
    ELSE (IF base = "learning" THEN "_supportive"
          ELSE IF base = "professional" THEN "_subtle" ELSE "_contemplative")

\* C18: the base is learning for learning content, professional for
\* professional, technical and entertainment content, emotional for
\* narrative and creative content; excited/happy, calm/neutral and
\* sad/fearful profiles take the suffix of their group and base; angry and
\* surprised profiles take no emotion suffix.
C18_RecommendedThemeTable ==
    call.op = "_determine_recommended_theme" =>
        /\ SubSeq(call.ret, 1, Len(BaseThemeOf(input.profile.content_type)))
              = BaseThemeOf(input.profile.content_type)
        /\ input.profile.emotion \notin {"angry", "surprised"} =>
              call.ret = BaseThemeOf(input.profile.content_type) \o
                  EmotionSuffixOf(BaseThemeOf(input.profile.content_type),
                                  input.profile.emotion)
        /\ input.profile.emotion \in {"angry", "surprised"} =>
              ~HasSuffixOf(call.ret, EmotionSuffixes)

C18_SadEntertainmentIsProfessional ==
    /\ call.op = "_determine_recommended_theme"
    /\ input.profile.emotion = "sad"
    /\ input.profile.content_type = "entertainment"
    /\ call.ret = "professional_subtle"

\* C19: detect_emotion returns an emotion whose final score (keywords,
\* modifiers, sentiment boost) is the greatest, with the intensity
\* min(score / number of words, 1); it returns neutral exactly when every
\* final score is zero, and then, and only then, the intensity 0.
C19_EmotionHasTheGreatestScore ==
    call.op = "detect_emotion" =>
        LET scores == FinalEmotionScores(input, sentiment_env)
            words == split(lower(_clean_text(input)))
            greatest == MaxOver(scores, EmotionKeywordOrder, 1)
        IN  /\ (\A e \in DOMAIN scores : scores[e] = Zero)
                  <=> call.ret = <<"neutral", Zero>>
            /\ call.ret[1] = "neutral" <=> call.ret[2] = Zero
            /\ call.ret[1] # "neutral" =>
                  /\ scores[call.ret[1]] = greatest
                  /\ call.ret[2] = RMin(RDiv(greatest, R(Len(words))), One)
                  /\ RGt(call.ret[2], Zero)

C19_SentimentSettlesATie ==
    /\ call.op = "detect_emotion"
    /\ input = "happy sad. learn "
    /\ sentiment_env.mode = "textblob"
    /\ sentiment_env.polarity = Frac(-1, 2)
    /\ call.ret[1] = "sad"

\* C20: classify_content returns the content type whose keyword score times
\* structural multiplier is the greatest, with the confidence that score
\* over the sum of all; every multiplier is at least 1, so a type without
\* keyword score stays without; text that scores for nothing is
\* professional with confidence 0; text that scores for one type alone has
\* confidence 1.
C20_ContentTypeHasTheGreatestScore ==
    call.op = "classify_content" =>
        LET base == _calculate_content_scores(input)
            structural_boost == _analyze_structure(input)
            boosted == [ct \in DOMAIN base |-> RMul(base[ct], structural_boost[ct])]
            greatest == MaxOver(boosted, ContentType, 1)
            scoring == { ct \in DOMAIN base : base[ct] # Zero }
        IN  /\ \A ct \in DOMAIN base :
                  /\ RLe(One, structural_boost[ct])
                  /\ base[ct] = Zero => boosted[ct] = Zero
            /\ scoring = {} => call.ret = <<"professional", Zero>>
            /\ scoring # {} =>
                  /\ boosted[call.ret[1]] = greatest
                  /\ call.ret[2] = RDiv(greatest, SumOver(boosted, ContentType, 1))
            /\ \A ct \in scoring : scoring = {ct} => call.ret = <<ct, One>>

C20_LinkMakesItTechnical ==
    /\ call.op = "classify_content"
    /\ input = "learn code http://x"
    /\ ContentScores(input)["learning"] = Frac(3, 4)
    /\ call.ret = <<"technical", Frac(11, 21)>>

(***************************************************************************)
(* Properties of the emotion scores, of the difficulty, themes and         *)
(* keywords of a profile, of the predefined-theme lookup, of the effects   *)
(* and of the failures of the sentiment step and of a request.             *)
(***************************************************************************)
\* C21: the emotion distribution is the L1-normalisation of the final scores
\* detect_emotion ranks (keywords, modifiers, sentiment), and the emotion
\* detect_emotion returns, when not neutral, has a share no smaller than any
\* other in the distribution of the same text.
C21_DistributionOfTheRankedScores ==
    call.op = "get_emotion_distribution" =>
        LET final == FinalEmotionScores(input, sentiment_env)
            total == SumOver(final, EmotionKeywordOrder, 1)
            detected == detect_emotion(input, sentiment_env)
        IN  /\ \A e \in DOMAIN final :
                  call.ret[e] = IF RGt(total, Zero) THEN RDiv(final[e], total) ELSE Zero
            /\ detected[1] # "neutral" =>
                  \A e \in DOMAIN call.ret : RLe(call.ret[e], call.ret[detected[1]])

RECURSIVE WindowProduct(_, _, _)
\* the product of the modifiers among words[j..i-1]
WindowProduct(words, i, j) ==
    IF j >= i THEN One
    ELSE RMul(IF words[j] \in DOMAIN intensity_modifiers
              THEN intensity_modifiers[words[j]] ELSE One,
              WindowProduct(words, i, j + 1))

RECURSIVE WindowedScore(_, _, _)
\* the score of an emotion when each keyword found at most 3 words after a
\* modifier is scaled by it and every other credit is left as it is
WindowedScore(words, keywords, i) ==
    IF i > Len(words) THEN Zero
    ELSE RAdd(IF InList(words[i], keywords)
              THEN WindowProduct(words, i, Max(1, i - 3))
              ELSE KeywordCredit(words[i], keywords),
              WindowedScore(words, keywords, i + 1))

\* C22: an intensity modifier scales only what the emotion keywords within
\* the 3 words after it add to a score; what a keyword outside every window
\* adds is not scaled, and without a modifier word the scores are unchanged.
C22_ModifiersScaleTheirWindowOnly ==
    call.op = "_apply_intensity_modifiers" =>
        /\ \A e \in DOMAIN call.ret :
              call.ret[e] = WindowedScore(call.words, emotion_keywords[e], 1)
        /\ (\A i \in 1..Len(call.words) : call.words[i] \notin DOMAIN intensity_modifiers)
              => call.ret = call.emotion_scores

\* C29: when the sentiment step raises, detect_emotion returns the result
\* of the keyword scores and intensity modifiers alone, every multiplier
\* being 1.
C29_SentimentFailureIsNeutral ==
    (call.op = "detect_emotion" /\ sentiment_env.mode = "raises") =>
        LET words == split(lower(_clean_text(input)))
            scores == _apply_intensity_modifiers(_calculate_emotion_scores(words), words)
            greatest == MaxOver(scores, EmotionKeywordOrder, 1)
        IN  /\ \A e \in SeqToSet(EmotionType) :
                  _get_sentiment_boost(input, sentiment_env)[e] = One
            /\ call.ret = IF IsBlank(input) \/ greatest = Zero
                          THEN <<"neutral", Zero>>
                          ELSE <<ArgMax(scores, EmotionKeywordOrder),
                                 RMin(RDiv(greatest, R(Len(words))), One)>>

C29_DetectedDespiteTheFailure ==
    /\ call.op = "detect_emotion"
    /\ sentiment_env.mode = "raises"
    /\ input = "happy sad. learn "
    /\ call.ret = <<"sad", Frac(1, 2)>>

\* the place of a difficulty in the enumeration
DifficultyRank(difficulty) ==
    CHOOSE k \in 1..Len(DifficultyLevel) : DifficultyLevel[k] = difficulty

\* the level the thresholds -0.3, 0.1 and 0.4 give a score
LevelOfScore(score) ==
    IF RLt(score, Frac(-3, 10)) THEN "easy"
    ELSE IF RLe(Frac(-3, 10), score) /\ RLt(score, Frac(1, 10)) THEN "medium"
    ELSE IF RLe(Frac(1, 10), score) /\ RLt(score, Frac(4, 10)) THEN "hard"
    ELSE "expert"

\* C23: the difficulty is easy for a composite score s < -0.3, medium for
\* -0.3 <= s < 0.1, hard for 0.1 <= s < 0.4 and expert for s >= 0.4, with
\* s = (avg_word_length-4)*0.3 + (avg_sentence_length-15)*0.02 +
\* (vocabulary_richness-0.5)*0.5; it does not decrease when s grows, and a
\* text without words is easy.
C23_DifficultyIsAStepFunction ==
    /\ call.op = "difficulty_level" =>
          /\ call.ret = LevelOfScore(input.difficulty_score)
          /\ \A score \in DifficultyScores :
                RLe(score, input.difficulty_score) =>
                    DifficultyRank(difficulty_level(score)) <= DifficultyRank(call.ret)
    /\ call.op = "_assess_difficulty" =>
          LET m == call.complexity_metrics
              s == RAdd(RAdd(RMul(RSub(m.avg_word_length, R(4)), Frac(3, 10)),
                             RMul(RSub(m.avg_sentence_length, R(15)), Frac(2, 100))),
                        RMul(RSub(m.vocabulary_richness, Frac(1, 2)), Frac(1, 2)))
          IN  /\ call.ret = LevelOfScore(s)
              /\ re_findall_words(lower(input.text)) = <<>> =>
                    /\ m.avg_word_length = Zero /\ m.avg_sentence_length = Zero
                    /\ m.vocabulary_richness = Zero
                    /\ call.ret = "easy"

C23_ScoreOnAThreshold ==
    /\ call.op = "difficulty_level"
    /\ input.difficulty_score = Frac(1, 10)
    /\ call.ret = "hard"

\* the names, in the order of the enumeration, of the entries with a share
\* above 0.2, each followed by suffix
ThemesAbove(dist, order, suffix) ==
    LET chosen == SelectSeq(order, LAMBDA key : RGt(dist[key], Frac(2, 10)))
    IN  [i \in 1..Len(chosen) |-> chosen[i] \o suffix]

\* C24: key_themes is the content types with a share above 0.2, in the
\* order of the enumeration, followed by the emotions with a share above
\* 0.2 as <emotion>_emotion, cut to the first 5: at most 5 entries, every
\* content theme before every emotion theme, and no content theme dropped.
C24_KeyThemesContentFirst ==
    call.op = "_extract_key_themes" =>
        LET contents == ThemesAbove(call.content_dist, ContentType, "")
            emotions == ThemesAbove(call.emotion_dist, EmotionType, "_emotion")
            all == contents \o emotions
        IN  /\ call.ret = SubSeq(all, 1, Min(5, Len(all)))
            /\ Len(call.ret) <= 5
            /\ \A i \in 1..Len(contents) : i <= Len(call.ret) /\ call.ret[i] = contents[i]
            /\ \A i, j \in 1..Len(call.ret) :
                  (EndsWith(call.ret[i], "_emotion") /\ ~EndsWith(call.ret[j], "_emotion"))
                      => j < i

C24_EmotionThemesDropped ==
    /\ call.op = "_extract_key_themes"
    /\ input.text = "team code design calm rage fear shocked"
    /\ Cardinality({ e \in DOMAIN call.emotion_dist :
                       RGt(call.emotion_dist[e], Frac(2, 10)) }) = 4
    /\ call.ret = <<"professional", "technical", "creative", "calm_emotion",
                    "angry_emotion">>

\* the place of the first occurrence of a word
FirstIndex(words, w) ==
    CHOOSE i \in 1..Len(words) : words[i] = w /\ \A j \in 1..(i - 1) : words[j] # w

\* at most 20 distinct lowercase tokens of the text, none a stop word or of
\* length <= 2, by descending count, ties by first occurrence
KeywordsRanked(ret, words) ==
    /\ Len(ret) <= 20
    /\ NoDuplicates(ret)
    /\ \A i \in 1..Len(ret) :
          /\ ret[i] \in SeqToSet(words)
          /\ lower(ret[i]) = ret[i]
          /\ ret[i] \notin stop_words
          /\ Len(ret[i]) > 2
    /\ \A i, j \in 1..Len(ret) :
          i < j =>
              \/ Occurrences(words, ret[i]) > Occurrences(words, ret[j])
              \/ /\ Occurrences(words, ret[i]) = Occurrences(words, ret[j])
                 /\ FirstIndex(words, ret[i]) < FirstIndex(words, ret[j])

\* C25 as stated: the keywords are at most 20 distinct lowercase tokens,
\* none a stop word or of length <= 2, by descending count with ties by
\* first occurrence, and every token of the text that is not returned has a
\* count no greater than that of every returned token.
C25_KeywordsOutnumberEveryOtherToken ==
    call.op = "_extract_keywords" =>
        LET words == re_findall_words(lower(input.document))
        IN  /\ KeywordsRanked(call.ret, words)
            /\ \A w \in SeqToSet(words) \ SeqToSet(call.ret) :
                  \A i \in 1..Len(call.ret) :
                      Occurrences(words, w) <= Occurrences(words, call.ret[i])

\* C25: the keywords are at most 20 distinct lowercase tokens, none a stop
\* word or of length <= 2, by descending count with ties by first
\* occurrence; every token of the text that is neither a stop word nor of
\* length <= 2 and is not returned has a count no greater than that of
\* every returned token, and is left out only when 20 are returned.
C25_KeywordsOutnumberEveryOtherKeptToken ==
    call.op = "_extract_keywords" =>
        LET words == re_findall_words(lower(input.document))
            kept == { w \in SeqToSet(words) : w \notin stop_words /\ Len(w) > 2 }
        IN  /\ KeywordsRanked(call.ret, words)
            /\ Len(call.ret) = Min(20, Cardinality(kept))
            /\ \A w \in kept \ SeqToSet(call.ret) :
                  \A i \in 1..Len(call.ret) :
                      Occurrences(words, w) <= Occurrences(words, call.ret[i])

C25_TwentyOfTwentyTwo ==
    /\ call.op = "_extract_keywords"
    /\ Cardinality(SeqToSet(re_findall_words(lower(input.document)))) = 22
    /\ Len(call.ret) = 20
    /\ call.ret[1] = "uuu" /\ call.ret[3] = "aaa"

\* the candidate list of the profile of a generate_theme call
CandidatesOf(profile) ==
    find_themes_for_profile(loaded_themes, profile.emotion, profile.content_type,
                            profile.difficulty)

\* C26: find_themes_for_profile returns at most three names, none twice, all
\* of them keys of the loaded themes; generate_theme on a cache miss returns
\* the loaded theme the first candidate names when there is a candidate, and
\* the synthesized theme exactly when there is none.
C26_PredefinedThemeLookup ==
    /\ call.op = "find_themes_for_profile" =>
          /\ Len(call.ret) <= 3
          /\ NoDuplicates(call.ret)
          /\ \A i \in 1..Len(call.ret) : call.ret[i] \in DOMAIN loaded_themes
    /\ (call.op = "generate_theme" /\ ~call.hit) =>
          LET candidates == CandidatesOf(call.profile)
              synthesized == generated_theme(call.profile, call.template_type)
          IN  /\ candidates # <<>> => call.ret = loaded_themes[candidates[1]]
              /\ candidates = <<>> <=> call.ret = synthesized

\* a miss with two candidates, the second of which is the profile's
\* fallback, answered with the first
C26_FirstOfTwoCandidates ==
    /\ call.op = "generate_theme"
    /\ ~call.hit
    /\ call.profile.content_type = "learning"
    /\ call.profile.difficulty = "easy"
    /\ CandidatesOf(call.profile) = <<"learning_energetic", "learning_focused">>
    /\ call.ret.name = "learning_energetic"
    /\ call.ret.compatibility = <<"typewriter", "scroll">>

\* C27 as stated: the candidate list of a content type and an emotion is the
\* same for every difficulty.
C27_CandidatesIgnoreDifficulty ==
    call.op = "find_themes_for_profile" =>
        \A difficulty \in SeqToSet(DifficultyLevel) :
            find_themes_for_profile(loaded_themes, call.emotion, call.content_type,
                                    difficulty) = call.ret

\* easy and medium texts on one side, hard and expert ones on the other
DifficultyBand(difficulty) == difficulty \in {"easy", "medium"}

\* C27: the candidate list of a content type other than learning and an
\* emotion is the same for every difficulty; the list of learning content is
\* the same for every emotion and for the difficulties of one band.
C27_CandidatesIgnoreDifficultyUnlessLearning ==
    call.op = "find_themes_for_profile" =>
        IF call.content_type # "learning"
        THEN \A difficulty \in SeqToSet(DifficultyLevel) :
                find_themes_for_profile(loaded_themes, call.emotion, call.content_type,
                                        difficulty) = call.ret
        ELSE \A emotion \in SeqToSet(EmotionType), difficulty \in SeqToSet(DifficultyLevel) :
                DifficultyBand(difficulty) = DifficultyBand(call.difficulty) =>
                    find_themes_for_profile(loaded_themes, emotion, "learning",
                                            difficulty) = call.ret

\* professional content whose emotion, not its difficulty, puts the minimal
\* theme before the positive one
C27_EasyProfessionalRankedByEmotion ==
    /\ call.op = "find_themes_for_profile"
    /\ call.content_type = "professional"
    /\ call.emotion = "sad"
    /\ call.difficulty = "easy"
    /\ call.ret = <<"professional_minimal", "professional_positive">>

\* the preset the intensity thresholds 0.3, 0.6 and 0.8 select
PresetFor(emotion_intensity) ==
    IF RGt(emotion_intensity, Frac(8, 10)) THEN "energetic"
    ELSE IF RGt(emotion_intensity, Frac(6, 10)) THEN "vibrant"
    ELSE IF RGt(emotion_intensity, Frac(3, 10)) THEN "moderate"
    ELSE "subtle"

\* the fields no adjustment touches are those of the preset
IsOfPreset(effects, preset) ==
    /\ effects.blur_radius = effect_templates[preset].blur_radius
    /\ effects.shadow_enabled = effect_templates[preset].shadow_enabled
    /\ effects.shadow_intensity = effect_templates[preset].shadow_intensity

\* what C28 says of every content type but entertainment, and of the templates
EffectsAdjusted(effects, profile, template_type) ==
    LET preset == effect_templates[PresetFor(profile.emotion_intensity)]
    IN  /\ ~Raised(effects)
        /\ IsOfPreset(effects, PresetFor(profile.emotion_intensity))
        /\ profile.content_type = "professional" => ~effects.pulse_enabled
        /\ profile.content_type \in {"learning", "professional"} =>
              /\ RLt(effects.animation_speed, preset.animation_speed)
              /\ RLt(effects.glow_intensity, preset.glow_intensity)
        /\ template_type = "railway" => effects.gradient_angle = 0
        /\ template_type = "scroll" =>
              \A other \in TemplateTypes \ {"railway", "scroll"} :
                  effects.animation_speed =
                      RMul(Frac(8, 10),
                           generate_visual_effects(profile, other).animation_speed)

\* C28 as stated: the preset follows the intensity thresholds; professional
\* content has no pulse; learning and professional content are slower and
\* dimmer than the preset and entertainment is faster and brighter; railway
\* has gradient angle 0; scroll has 0.8 times the speed of typewriter.
C28_EffectsFollowPresetAndAdjustments ==
    call.op = "generate_visual_effects" =>
        /\ EffectsAdjusted(call.ret, input.profile, input.template_type)
        /\ input.profile.content_type = "entertainment" =>
              LET preset == effect_templates[PresetFor(input.profile.emotion_intensity)]
              IN  /\ RGt(call.ret.animation_speed, preset.animation_speed)
                  /\ RGt(call.ret.glow_intensity, preset.glow_intensity)

\* C28: as stated, but entertainment content is brighter than the preset on
\* every template and faster than the preset on every template but scroll,
\* where it is slower than the preset.
C28_EntertainmentFasterExceptOnScroll ==
    call.op = "generate_visual_effects" =>
        /\ EffectsAdjusted(call.ret, input.profile, input.template_type)
        /\ input.profile.content_type = "entertainment" =>
              LET preset == effect_templates[PresetFor(input.profile.emotion_intensity)]
              IN  /\ RGt(call.ret.glow_intensity, preset.glow_intensity)
                  /\ IF input.template_type = "scroll"
                     THEN RLt(call.ret.animation_speed, preset.animation_speed)
                     ELSE RGt(call.ret.animation_speed, preset.animation_speed)

\* entertainment content with an intensity on the threshold of the energetic
\* preset, scrolled: the vibrant preset, slower than it
C28_ScrolledEntertainmentOnAThreshold ==
    /\ call.op = "generate_visual_effects"
    /\ input.profile.content_type = "entertainment"
    /\ input.profile.emotion_intensity = Frac(8, 10)
    /\ input.template_type = "scroll"
    /\ IsOfPreset(call.ret, "vibrant")
    /\ call.ret.animation_speed = Frac(1152, 1000)
    /\ call.ret.glow_intensity = Frac(66, 100)

\* the analysis a failure response carries
DefaultAnalysis(analysis, text) ==
    /\ analysis.text = text
    /\ analysis.profile.emotion = "neutral"
    /\ analysis.profile.content_type = "professional"
    /\ analysis.profile.difficulty = "medium"
    /\ analysis.profile.emotion_intensity = Zero
    /\ analysis.profile.confidence = Zero

\* C30: when a phase of process_decoration_request raises, the call does not
\* raise: it returns a response with success False, the failure text as its
\* error message, an empty css_content and the default analysis, and the
\* performance statistics are as they were before the call.
C30_FailuresAreReportedAsValues ==
    [][(call'.op = "process_decoration_request" /\ "failed" \in DOMAIN call') =>
          /\ ~call'.raised
          /\ call'.ret.success = FALSE
          /\ call'.ret.error_message = FailureText
          /\ call'.ret.output.css_content = ""
          /\ DefaultAnalysis(call'.ret.analysis, call'.request.text)
          /\ performance_stats' = performance_stats]_vars

====
